---- MODULE Spec2Model ----
(***************************************************************************)
(* A model of ArtLens (zx2009/ArtLens): the recognition gate, the Artwork  *)
(* store behind the recognize and create_artwork endpoints, the quiz       *)
(* endpoints, the related-content assembler and the museum cross-reference *)
(* helpers.                                                                *)
(*                                                                         *)
(* Conventions.  A Python dict that comes from the model (the parsed       *)
(* response) is a record whose string fields hold "absent" when the key is *)
(* missing.  Confidence is kept in tenths (0.7 is 7, 0.9 is 9) so that the *)
(* comparisons of the code stay integer comparisons.  Python None is the   *)
(* string "None".  Pass-through fields that no handler branches on (year,  *)
(* museum, description) are left out of the records.                       *)
(***************************************************************************)
EXTENDS Integers, Sequences, FiniteSets, TLC

VARIABLES
    USE_REAL_AI,     \* ai_services.USE_REAL_AI, fixed at import time
    artworks,        \* the Artwork table, in insertion order (id = position)
    users,           \* the User table: xp, level, artworks_discovered
    lastResp,        \* the response of the last recognize / create_artwork request
    firstUpload,     \* history: per file hash, the artwork id its first successful upload returned
    gateIn,          \* recognition gate: the outcome of the model call
    gateOut,         \* recognition gate: the dictionary returned
    gatePc,          \* recognition gate: "call" before, "done" after
    quizAttempts,    \* the QuizAttempt table, in insertion order (id = position)
    quizResp,        \* the response of the last quiz_mode / submit_quiz request
    mvIn,            \* infer_art_movement: its arguments
    mvOut,           \* infer_art_movement: its return value ("raise" for an exception)
    mvPc,            \* infer_art_movement: "call" before, "done" after
    metIn,           \* museum cross-reference: the function called, its arguments, the API's answers
    metOut,          \* museum cross-reference: the list returned (<< >> for None)
    metPc,           \* museum cross-reference: "call" before, "done" after
    relCache,        \* flask cache: per (artwork id, user) the related-content bundle
    artistMemo,      \* lru_cache of find_related_artworks_by_artist
    styleMemo,       \* lru_cache of find_related_artworks_by_style
    searchMemo,      \* lru_cache of search_met_artwork
    aiContentCache,  \* ai_services._ai_content_cache
    rel,             \* the get_related_content request in flight and its position
    relResp,         \* the response of the last get_related_content request
    qzIn,            \* generate_quiz: what the model call produced
    qzOut,           \* generate_quiz: the value returned
    qzPc,            \* generate_quiz: "call" before, "done" after
    gallery,         \* the Gallery table: the set of its rows
    galReq,          \* per worker thread, the gallery request it is serving and its position
    galResp,         \* the last response of a gallery request, with what held when it was sent
    session,         \* the session's chat histories, per chat key
    chatLog,         \* history: per (user, artwork) pair, every message of its conversation
    chatPrompt,      \* the messages handed to the model by the last chat request (<< >>: none)
    chatResp,        \* the response of the last chat_mode request
    storeReq,        \* per worker thread, the recognize / create_artwork request it is serving
    quizReq          \* per worker thread, the quiz_mode request it is serving and its response

storeVars == <<USE_REAL_AI, artworks, users, lastResp, firstUpload>>
gateVars == <<gateIn, gateOut, gatePc>>
quizVars == <<quizAttempts, quizResp>>
mvVars == <<mvIn, mvOut, mvPc>>
metVars == <<metIn, metOut, metPc>>
qzVars == <<qzIn, qzOut, qzPc>>
galVars == <<gallery, galReq, galResp>>
chatVars == <<session, chatLog, chatPrompt, chatResp>>
raceVars == <<storeReq>>
quizRaceVars == <<quizReq>>
relVars == <<relCache, artistMemo, styleMemo, searchMemo, aiContentCache, rel, relResp>>
vars == <<USE_REAL_AI, artworks, users, lastResp, firstUpload, gateIn, gateOut, gatePc,
          quizAttempts, quizResp, mvIn, mvOut, mvPc, metIn, metOut, metPc,
          relCache, artistMemo, styleMemo, searchMemo, aiContentCache, rel, relResp,
          qzIn, qzOut, qzPc,
          gallery, galReq, galResp,
          session, chatLog, chatPrompt, chatResp,
          storeReq,
          quizReq>>

----------------------------------------------------------------------------
(* Values *)

Absent == "absent"
None == "None"

Titles == {"The Starry Night", "Mona Lisa"}
Artists == {"Vincent van Gogh", "Leonardo da Vinci"}
Hashes == {"h1", "h2"}
Users == {"u1", "u2"}
\* the users who upload and create artworks in the store specification
StoreUsers == {"u1"}

\* 0.7 and 0.9 in tenths
ConfidenceThreshold == 7
MuseumConfidence == 9
DiscoveryXP == 10
XPPerLevel == 100

\* each user makes at most this many discoveries (bounds xp and the store)
MaxDiscoveries == 3
\* XP per correct quiz answer
QuizXP == 10
\* the QuizAttempt table holds at most this many rows
MaxAttempts == 2
\* each user completes at most this many quiz submissions
MaxSubmits == 2
\* a Met record carries at most this many tags
MaxTags == 2
\* a Met search answers with at most this many object ids
MaxObjects == 3
\* search_met_artwork looks at the first 10 ids, the find_related functions at 20
SearchCandidates == 10
RelatedCandidates == 20
\* the scores of search_met_artwork
ExactScore == 10
PartialScore == 5
ContainedTitleScore == 3
WeakTitleScore == 1
LastNameScore == 3
MinScore == 8
\* get_related_content returns at most 3 related artworks
RelatedQuota == 3
\* the model's quiz holds at most this many questions
MaxQuestions == 2
\* the Gallery table hands out ids up to this one
MaxGalleryId == 3

----------------------------------------------------------------------------
(* The recognition gate: ai_services.recognize_artwork_with_gpt4_vision *)

\* What the model call can produce.  kind:
\*   "exception"  the client or the call raises
\*   "nojson"     text with no {...} in it
\*   "badjson"    braces found, json.loads fails also after the repairs
\*   "nondict"    valid JSON that is not an object (a list, a number, ...)
\*   "dict"       a JSON object; success is "true", "false", "null" or "absent",
\*                conf_type is "absent", "number" or "other" (a string, null)
NoDict == [success |-> Absent, title |-> Absent, artist |-> Absent,
           conf_type |-> Absent, confidence |-> 0]

ModelResponses ==
    { [kind |-> k, dict |-> NoDict] : k \in {"exception", "nojson", "badjson", "nondict"} }
    \cup
    { [kind |-> "dict",
       dict |-> [success |-> s, title |-> t, artist |-> a,
                 conf_type |-> ct, confidence |-> c]] :
        s \in {"true", "false", "null", Absent},
        t \in Titles \cup {Absent},
        a \in Artists \cup {Absent},
        ct \in {"number"},
        c \in {0, 5, 7, 9} }
    \cup
    { [kind |-> "dict",
       dict |-> [success |-> s, title |-> t, artist |-> a,
                 conf_type |-> ct, confidence |-> 0]] :
        s \in {"true", "false", "null", Absent},
        t \in Titles \cup {Absent},
        a \in Artists \cup {Absent},
        ct \in {Absent, "other"} }

\* A dictionary the gate returns: the fields of the parsed object plus the
\* message and suggestions of the gate's own failure dictionaries.
Failure(msg, sugg) ==
    [success |-> "false", title |-> Absent, artist |-> Absent,
     conf_type |-> Absent, confidence |-> 0, message |-> msg, suggestions |-> sugg]

PassThrough(d) ==
    [success |-> d.success, title |-> d.title, artist |-> d.artist,
     conf_type |-> d.conf_type, confidence |-> d.confidence,
     message |-> Absent, suggestions |-> Absent]

\* result.get('success') is truthy
Truthy(success) == success = "true"

\* result.get('confidence', 0)
GetConfidence(d) == IF d.conf_type = "number" THEN d.confidence ELSE 0

\* the validation without its confidence check
GateValidate_NoConfidenceCheck(d) ==
    IF Truthy(d.success)
    THEN IF d.title = Absent \/ d.artist = Absent
         THEN Failure("not_famous", "nonempty")
         ELSE PassThrough(d)
    ELSE PassThrough(d)

\* lines 205-235: the validation of a parsed object
GateValidate(d) ==
    IF Truthy(d.success)
    THEN IF d.title = Absent \/ d.artist = Absent
         THEN Failure("not_famous", "nonempty")
         ELSE IF d.conf_type = "other"
              THEN Failure("recognition_error", Absent)   \* TypeError, caught at 237
              ELSE IF GetConfidence(d) < ConfidenceThreshold
                   THEN Failure("low_confidence", "nonempty")
                   ELSE PassThrough(d)
    ELSE PassThrough(d)

recognize_artwork_with_gpt4_vision(r) ==
    CASE r.kind = "exception" -> Failure("recognition_error", Absent)
      [] r.kind = "nojson"    -> Failure("no_valid_response", "nonempty")
      [] r.kind = "badjson"   -> Failure("parse_error", "nonempty")
      [] r.kind = "nondict"   -> Failure("recognition_error", Absent)
      [] OTHER                -> GateValidate(r.dict)

\* ai_services.recognize_artwork: the gate with credentials, mock data without
MockArtworks ==
    { [success |-> "true", title |-> "The Starry Night", artist |-> "Vincent van Gogh",
       conf_type |-> Absent, confidence |-> 0, message |-> Absent, suggestions |-> Absent],
      [success |-> "true", title |-> "Mona Lisa", artist |-> "Leonardo da Vinci",
       conf_type |-> Absent, confidence |-> 0, message |-> Absent, suggestions |-> Absent] }

\* The outcomes of the model call the store is driven with: every kind, and
\* every object that claims success; an object that does not claim success
\* carries no other field (the handler reads none of them).
StoreModelResponses ==
    { r \in ModelResponses :
        (r.kind = "dict" /\ r.dict.success # "true") =>
            (r.dict.title = Absent /\ r.dict.artist = Absent /\ r.dict.conf_type = Absent) }

recognize_artwork(useAI) ==
    IF useAI
    THEN { recognize_artwork_with_gpt4_vision(r) : r \in StoreModelResponses }
    ELSE MockArtworks

NoResult == Failure(Absent, Absent)

----------------------------------------------------------------------------
(* The gate as a specification of its own *)

GateInit ==
    /\ gateIn \in ModelResponses
    /\ gateOut = NoResult
    /\ gatePc = "call"

GateIdle ==
    /\ gateIn = [kind |-> "exception", dict |-> NoDict]
    /\ gateOut = NoResult
    /\ gatePc = "call"

GateCall ==
    /\ gatePc = "call"
    /\ gateOut' = recognize_artwork_with_gpt4_vision(gateIn)
    /\ gatePc' = "done"
    /\ UNCHANGED gateIn

----------------------------------------------------------------------------
(* The Artwork store: app.recognize and app.create_artwork *)

NoUser == [xp |-> 0, level |-> 1, artworks_discovered |-> 0, quizzes_completed |-> 0]

NoResp == [op |-> "none", user |-> None, image_hash |-> None, status |-> 0,
           cached |-> FALSE, artwork_id |-> 0, title |-> Absent, artist |-> Absent,
           confidence |-> 0, ai_called |-> FALSE, result |-> NoResult]

StoreInit ==
    /\ USE_REAL_AI \in BOOLEAN
    /\ artworks = << >>
    /\ users = [u \in Users |-> NoUser]
    /\ lastResp = NoResp
    /\ firstUpload = [h \in Hashes |-> 0]

StoreIdle ==
    /\ USE_REAL_AI = TRUE
    /\ artworks = << >>
    /\ users = [u \in Users |-> NoUser]
    /\ lastResp = NoResp
    /\ firstUpload = [h \in Hashes |-> 0]

\* Query.filter_by(...).first(): the lowest id that satisfies P, 0 when none
\* (ids is the set of ids of the rows that match the filter)
First(ids) ==
    IF ids = {} THEN 0 ELSE CHOOSE i \in ids : \A j \in ids : i <= j

\* User.add_xp
add_xp(u, amount) ==
    LET xp == u.xp + amount
        new_level == (xp \div XPPerLevel) + 1
    IN [u EXCEPT !.xp = xp,
                 !.level = IF new_level > u.level THEN new_level ELSE u.level]

\* add_xp(10) followed by increment_artworks_discovered()
Discover(u) ==
    [add_xp(u, DiscoveryXP) EXCEPT !.artworks_discovered = @ + 1]

\* the confidence overwritten by every recognition
UpdatedConfidence_Overwrite(old, new) == new

\* lines 143-144: the confidence an existing artwork keeps or takes
UpdatedConfidence(old, new) == IF new > old THEN new ELSE old

\* lines 146-147: the hash an existing artwork keeps or takes
UpdatedHash(old, new) == IF old = None /\ new # None THEN new ELSE old

ArtworkResp(op, u, h, a, cached, called, res) ==
    [op |-> op, user |-> u, image_hash |-> h, status |-> 200, cached |-> cached,
     artwork_id |-> a.id, title |-> a.title, artist |-> a.artist,
     confidence |-> a.confidence, ai_called |-> called, result |-> res]

\* the 404 body carries the result's message and suggestions only
ErrorResp(op, u, h, status, called, res) ==
    [op |-> op, user |-> u, image_hash |-> h, status |-> status, cached |-> FALSE,
     artwork_id |-> 0, title |-> Absent, artist |-> Absent,
     confidence |-> 0, ai_called |-> called,
     result |-> Failure(res.message, res.suggestions)]

\* the endpoint without its hash lookup
CachedArtwork_NoLookup(h) == 0

\* the hash lookup of lines 103-105
CachedArtwork(h) ==
    IF h = None THEN 0 ELSE First({i \in DOMAIN artworks : artworks[i].image_hash = h})

\* lines 99-172 for one upload: u is current_user, h the hash of the file (None
\* when generate_image_hash failed), res what recognize_artwork returns if called
Recognize(u, h, res) ==
    LET hit == CachedArtwork(h) IN
    IF hit # 0
    THEN /\ lastResp' = ArtworkResp("recognize", u, h, artworks[hit], TRUE, FALSE, NoResult)
         /\ UNCHANGED <<USE_REAL_AI, artworks, users, firstUpload>>
    ELSE IF res.success = Absent
    THEN \* result['success'] raises KeyError: a 500, nothing committed
         /\ lastResp' = ErrorResp("recognize", u, h, 500, TRUE, res)
         /\ UNCHANGED <<USE_REAL_AI, artworks, users, firstUpload>>
    ELSE IF ~Truthy(res.success)
    THEN /\ lastResp' = ErrorResp("recognize", u, h, 404, TRUE, res)
         /\ UNCHANGED <<USE_REAL_AI, artworks, users, firstUpload>>
    ELSE
         LET found == First({i \in DOMAIN artworks : artworks[i].title = res.title})
             new_confidence == GetConfidence(res)
             id == IF found = 0 THEN Len(artworks) + 1 ELSE found
             store ==
                IF found = 0
                THEN Append(artworks,
                            [id |-> id, title |-> res.title, artist |-> res.artist,
                             confidence |-> new_confidence, image_hash |-> h])
                ELSE [artworks EXCEPT
                        ![found].confidence = UpdatedConfidence(@, new_confidence),
                        ![found].image_hash = UpdatedHash(@, h)]
         IN /\ users[u].artworks_discovered < MaxDiscoveries
            /\ artworks' = store
            /\ users' = [users EXCEPT ![u] = Discover(@)]
            /\ lastResp' = ArtworkResp("recognize", u, h, store[id], FALSE, TRUE, res)
            /\ firstUpload' = IF h # None /\ firstUpload[h] = 0
                              THEN [firstUpload EXCEPT ![h] = id]
                              ELSE firstUpload
            /\ UNCHANGED USE_REAL_AI

RecognizeRequest ==
    \E u \in StoreUsers, h \in Hashes \cup {None}, res \in recognize_artwork(USE_REAL_AI) :
        Recognize(u, h, res)

\* create_artwork without its lookup
ExistingArtwork_NoLookup(title, artist) == 0

\* lines 371-374: the lookup by (title, artist)
ExistingArtwork(title, artist) ==
    First({i \in DOMAIN artworks :
            artworks[i].title = title /\ artworks[i].artist = artist})

\* lines 361-420: title and artist come from the request body
CreateArtwork(u, title, artist) ==
    LET existing == ExistingArtwork(title, artist)
        id == Len(artworks) + 1
    IN /\ users[u].artworks_discovered < MaxDiscoveries
       /\ IF existing # 0
          THEN /\ UNCHANGED artworks
               /\ lastResp' = ArtworkResp("create_artwork", u, None, artworks[existing],
                                          FALSE, FALSE, NoResult)
          ELSE /\ artworks' = Append(artworks,
                                     [id |-> id, title |-> title, artist |-> artist,
                                      confidence |-> MuseumConfidence, image_hash |-> None])
               /\ lastResp' = ArtworkResp("create_artwork", u, None, artworks'[id],
                                          FALSE, FALSE, NoResult)
       /\ users' = [users EXCEPT ![u] = Discover(@)]
       /\ UNCHANGED <<USE_REAL_AI, firstUpload>>

CreateArtworkRequest ==
    \E u \in StoreUsers, t \in Titles, a \in Artists : CreateArtwork(u, t, a)

----------------------------------------------------------------------------
(* The quiz endpoints: app.quiz_mode and app.submit_quiz *)

\* A question list is a sequence of questions; a question is its text (an
\* identifier) and its correct_answer.  Options and explanation are carried
\* along by the code and left out.
TemplateQuestions ==
    { <<[question |-> "who_painted", correct_answer |-> 0],
        [question |-> "which_movement", correct_answer |-> 0]>>,
      <<[question |-> "which_movement", correct_answer |-> 0],
        [question |-> "who_painted", correct_answer |-> 0]>> }

AIQuestions ==
    { << >>,
      <<[question |-> "ai_question", correct_answer |-> 1]>> }

\* ai_services.generate_quiz: the model's list, or the shuffled template when
\* there are no credentials or the call fails
generate_quiz(useAI) ==
    IF useAI THEN AIQuestions \cup TemplateQuestions ELSE TemplateQuestions

\* json.dumps and json.loads of a question list: the column holds text
json_dumps(q) == [json |-> q]
json_loads(t) == t.json

Answers == {<< >>, <<1>>, <<0, 0>>}

NoQuizResp == [op |-> "none", user |-> None, artwork_id |-> 0, status |-> 0,
               quiz_id |-> 0, questions |-> << >>, generated |-> FALSE,
               score |-> 0, xp_earned |-> 0]

\* a stored artwork for the quiz requests to name
QuizStore ==
    << [id |-> 1, title |-> "The Starry Night", artist |-> "Vincent van Gogh",
        confidence |-> 9, image_hash |-> "h1"] >>

QuizInit ==
    /\ quizAttempts = << >>
    /\ quizResp = NoQuizResp

\* lines 430-433: the latest attempt of the pair, 0 when none
LatestAttempt(u, a) ==
    LET ids == {i \in DOMAIN quizAttempts :
                    quizAttempts[i].user_id = u /\ quizAttempts[i].artwork_id = a}
    IN IF ids = {} THEN 0 ELSE CHOOSE i \in ids : \A j \in ids : j <= i

\* a retake that generates its questions anew
RetakeQuestions_Regenerate(previous, fresh) == json_dumps(fresh)

\* line 451: the questions column of a retake
RetakeQuestions(previous, fresh) == previous.questions

NewAttempt(u, a, text) ==
    [id |-> Len(quizAttempts) + 1, user_id |-> u, artwork_id |-> a,
     questions |-> text, completed |-> FALSE, score |-> 0]

QuizResp(op, u, a, status, attempt, generated) ==
    [op |-> op, user |-> u, artwork_id |-> a, status |-> status,
     quiz_id |-> attempt.id, questions |-> json_loads(attempt.questions),
     generated |-> generated, score |-> 0, xp_earned |-> 0]

QuizError(op, u, a, status) ==
    [NoQuizResp EXCEPT !.op = op, !.user = u, !.artwork_id = a, !.status = status]

\* lines 424-460; fresh is what generate_quiz returns if it is called
QuizMode(u, a, fresh) ==
    LET latest == LatestAttempt(u, a) IN
    IF a \notin DOMAIN artworks
    THEN /\ quizResp' = QuizError("quiz_mode", u, a, 404)
         /\ UNCHANGED quizAttempts
    ELSE IF latest = 0
    THEN LET attempt == NewAttempt(u, a, json_dumps(fresh)) IN
         /\ Len(quizAttempts) < MaxAttempts
         /\ quizAttempts' = Append(quizAttempts, attempt)
         /\ quizResp' = QuizResp("quiz_mode", u, a, 200, attempt, TRUE)
    ELSE IF quizAttempts[latest].completed
    THEN LET attempt == NewAttempt(u, a, RetakeQuestions(quizAttempts[latest], fresh)) IN
         /\ Len(quizAttempts) < MaxAttempts
         /\ quizAttempts' = Append(quizAttempts, attempt)
         /\ quizResp' = QuizResp("quiz_mode", u, a, 200, attempt, FALSE)
    ELSE /\ quizResp' = QuizResp("quiz_mode", u, a, 200, quizAttempts[latest], FALSE)
         /\ UNCHANGED quizAttempts

QuizModeRequest ==
    /\ \E u \in Users, a \in 1..(Len(artworks) + 1), fresh \in generate_quiz(USE_REAL_AI) :
            QuizMode(u, a, fresh)
    /\ UNCHANGED <<USE_REAL_AI, artworks, users, lastResp, firstUpload>>

\* lines 477-479
CountCorrect(answers, questions) ==
    Cardinality({i \in DOMAIN answers :
                    i <= Len(questions) /\ answers[i] = questions[i].correct_answer})

\* lines 464-518 (badges left out); a missing row is a 404, another user's a
\* 403, an empty question list a ZeroDivisionError at line 481
SubmitQuiz(u, quiz_id, answers) ==
    IF quiz_id \notin DOMAIN quizAttempts
    THEN /\ quizResp' = QuizError("submit_quiz", u, 0, 404)
         /\ UNCHANGED <<quizAttempts, users>>
    ELSE IF quizAttempts[quiz_id].user_id # u
    THEN /\ quizResp' = QuizError("submit_quiz", u, quizAttempts[quiz_id].artwork_id, 403)
         /\ UNCHANGED <<quizAttempts, users>>
    ELSE LET attempt == quizAttempts[quiz_id]
             questions == json_loads(attempt.questions)
             correct == CountCorrect(answers, questions)
         IN IF Len(questions) = 0
            THEN /\ quizResp' = QuizError("submit_quiz", u, attempt.artwork_id, 500)
                 /\ UNCHANGED <<quizAttempts, users>>
            ELSE LET score == (correct * 100) \div Len(questions)
                     xp_earned == correct * QuizXP
                 IN /\ users[u].quizzes_completed < MaxSubmits
                    /\ quizAttempts' = [quizAttempts EXCEPT
                                            ![quiz_id].score = score,
                                            ![quiz_id].completed = TRUE]
                    /\ users' = [users EXCEPT
                                    ![u] = [add_xp(@, xp_earned) EXCEPT
                                                !.quizzes_completed = @ + 1]]
                    /\ quizResp' = [op |-> "submit_quiz", user |-> u,
                                    artwork_id |-> attempt.artwork_id, status |-> 200,
                                    quiz_id |-> quiz_id, questions |-> << >>,
                                    generated |-> FALSE, score |-> score,
                                    xp_earned |-> xp_earned]

SubmitQuizRequest ==
    /\ \E u \in Users, quiz_id \in 1..(Len(quizAttempts) + 1), answers \in Answers :
            SubmitQuiz(u, quiz_id, answers)
    /\ UNCHANGED <<USE_REAL_AI, artworks, lastResp, firstUpload>>

----------------------------------------------------------------------------
(* ai_services.generate_quiz, followed from the model's output to the value    *)
(* returned.  (generate_quiz above gives the question lists as the quiz        *)
(* endpoints store them.)                                                      *)

\* the key is missing
Missing == -1

\* An element of the list the model sent: is_object is FALSE for an element
\* that is no JSON object; options is the number of options and
\* correct_answer the index, Missing when the key is not there.
Question(text, options, correct_answer, explanation) ==
    [is_object |-> TRUE, question |-> text, options |-> options,
     correct_answer |-> correct_answer, explanation |-> explanation]

\* lines 514-545
base_questions ==
    << Question("who_painted", 4, 0, "text"),
       Question("which_movement", 4, 0, "text"),
       Question("when_created", 4, 0, "text"),
       Question("which_emotion", 4, 0, "text"),
       Question("which_technique", 4, 0, "text") >>

\* random.shuffle (line 548): any order of the five
Shuffles ==
    { f \in [DOMAIN base_questions -> DOMAIN base_questions] :
        \A i, j \in DOMAIN f : f[i] = f[j] => i = j }

\* lines 548-549
TemplateQuiz(order) ==
    [type |-> "list",
     items |-> SubSeq([i \in DOMAIN base_questions |-> base_questions[order[i]]], 1, 5)]

AIItems ==
    { Question("ai_question", 4, 1, "text"),
      Question("ai_question", 3, 1, "text"),
      Question("ai_question", 4, Missing, "text"),
      Question("ai_question", 4, 1, Absent),
      [is_object |-> FALSE, question |-> Absent, options |-> Missing,
       correct_answer |-> Missing, explanation |-> Absent] }

\* What the model call produces (lines 453-490).  kind:
\*   "exception"   the client or the call raises
\*   "unparsable"  json.loads raises
\*   "scalar"      a JSON number, true, false or null: len() raises
\*   "string"      a JSON string
\*   "object"      a JSON object without a questions key
\*   "wrapped"     a JSON object whose questions key holds the list items
\*   "list"        the JSON list items
QuizOutputs ==
    { [kind |-> k, items |-> << >>] :
        k \in {"exception", "unparsable", "scalar", "string", "object"} }
    \cup { [kind |-> k, items |-> l] :
             k \in {"wrapped", "list"},
             l \in UNION { [1..n -> AIItems] : n \in 0..MaxQuestions } }

\* lines 444-549: what generate_quiz returns
GenerateQuiz(useAI, output, order) ==
    IF useAI /\ output.kind \in {"wrapped", "list"}
    THEN [type |-> "list", items |-> output.items]
    ELSE IF useAI /\ output.kind = "string"
    THEN [type |-> "str", items |-> << >>]
    ELSE IF useAI /\ output.kind = "object"
    THEN [type |-> "dict", items |-> << >>]
    ELSE TemplateQuiz(order)

QuizGenInit ==
    /\ qzIn \in QuizOutputs
    /\ qzOut = [type |-> "list", items |-> << >>]
    /\ qzPc = "call"

QuizGenIdle ==
    /\ qzIn = [kind |-> "exception", items |-> << >>]
    /\ qzOut = [type |-> "list", items |-> << >>]
    /\ qzPc = "call"

GenerateQuizCall ==
    /\ qzPc = "call"
    /\ \E order \in Shuffles : qzOut' = GenerateQuiz(USE_REAL_AI, qzIn, order)
    /\ qzPc' = "done"
    /\ UNCHANGED qzIn

----------------------------------------------------------------------------
(* The gallery: app.add_to_gallery and app.remove_from_gallery.  The server  *)
(* is threaded, so two requests can interleave between their query and their *)
(* commit; galReq[w].pc is the position of the request worker w serves.      *)

Workers == {"w1", "w2"}
GalleryArtworks == {1, 2}

IdleWorker == [pc |-> "idle", user |-> None, artwork_id |-> 0, gallery_id |-> 0]

NoGalleryResp ==
    [op |-> "none", user |-> None, artwork_id |-> 0, status |-> 0, success |-> FALSE,
     was_in_gallery |-> FALSE, changed |-> FALSE]

GalleryInit ==
    /\ gallery = {}
    /\ galReq = [w \in Workers |-> IdleWorker]
    /\ galResp = NoGalleryResp

\* Gallery.query.filter_by(user_id=..., artwork_id=...)
GalleryItems(u, a) == {g \in gallery : g.user_id = u /\ g.artwork_id = a}

\* the primary key of a new row
NextGalleryId ==
    IF gallery = {} THEN 1
    ELSE 1 + CHOOSE n \in {g.id : g \in gallery} : \A g \in gallery : g.id <= n

\* app.py lines 536-539: existing_item
ExistingItem(u, a) == GalleryItems(u, a)

AddResp(u, a, status, changed) ==
    [op |-> "add", user |-> u, artwork_id |-> a, status |-> status,
     success |-> (status = 200), was_in_gallery |-> GalleryItems(u, a) # {},
     changed |-> changed]

\* app.py lines 529-546: the query and the 409
AddToGalleryCheck(w, u, a) ==
    /\ galReq[w].pc = "idle"
    /\ IF ExistingItem(u, a) # {}
       THEN /\ galResp' = AddResp(u, a, 409, FALSE)
            /\ UNCHANGED galReq
       ELSE /\ galReq' = [galReq EXCEPT ![w] =
                            [IdleWorker EXCEPT !.pc = "adding", !.user = u,
                                               !.artwork_id = a]]
            /\ UNCHANGED galResp
    /\ UNCHANGED gallery

\* app.py lines 548-556: the insert and the commit.  The unique constraint
\* (models.py lines 148-150) rejects a second row of the pair: commit raises
\* IntegrityError, which nothing catches (500).
AddToGalleryCommit(w) ==
    /\ galReq[w].pc = "adding"
    /\ LET u == galReq[w].user
           a == galReq[w].artwork_id
       IN IF GalleryItems(u, a) # {}
          THEN /\ galResp' = AddResp(u, a, 500, FALSE)
               /\ UNCHANGED gallery
          ELSE /\ NextGalleryId <= MaxGalleryId
               /\ gallery' = gallery \cup
                                {[id |-> NextGalleryId, user_id |-> u, artwork_id |-> a]}
               /\ galResp' = AddResp(u, a, 200, TRUE)
    /\ galReq' = [galReq EXCEPT ![w] = IdleWorker]

RemoveResp(u, status, changed) ==
    [op |-> "remove", user |-> u, artwork_id |-> 0, status |-> status,
     success |-> (status = 200), was_in_gallery |-> FALSE, changed |-> changed]

\* app.py lines 558-566: get_or_404 and the ownership test
RemoveFromGalleryGet(w, u, gallery_id) ==
    /\ galReq[w].pc = "idle"
    /\ LET found == {g \in gallery : g.id = gallery_id}
       IN IF found = {}
          THEN galResp' = RemoveResp(u, 404, FALSE) /\ UNCHANGED galReq
          ELSE IF \E g \in found : g.user_id # u
          THEN galResp' = RemoveResp(u, 403, FALSE) /\ UNCHANGED galReq
          ELSE /\ galReq' = [galReq EXCEPT ![w] =
                               [IdleWorker EXCEPT !.pc = "removing", !.user = u,
                                                  !.gallery_id = gallery_id]]
               /\ UNCHANGED galResp
    /\ UNCHANGED gallery

\* app.py lines 568-571: the delete and the commit.  When another request
\* deleted the row in between, the DELETE matches nothing: the library warns
\* or raises, depending on its version.
RemoveFromGalleryCommit(w) ==
    /\ galReq[w].pc = "removing"
    /\ LET u == galReq[w].user
           found == {g \in gallery : g.id = galReq[w].gallery_id /\ g.user_id = u}
       IN IF found # {}
          THEN /\ gallery' = gallery \ found
               /\ galResp' = RemoveResp(u, 200, TRUE)
          ELSE /\ \E status \in {200, 500} : galResp' = RemoveResp(u, status, FALSE)
               /\ UNCHANGED gallery
    /\ galReq' = [galReq EXCEPT ![w] = IdleWorker]

----------------------------------------------------------------------------
(* chat_mode and chat_with_artwork: the session's chat histories *)

MaxChats == 6

HistoryKept == 10
PromptContext == 6

ChatUsers == {"u1", "u2"}
ChatArtworks == {1, 2}
MissingChatArtwork == Cardinality(ChatArtworks) + 1
ChatKeys == ChatUsers \X ChatArtworks
UserMessages == {"m1"}

Message(role, content) == [role |-> role, content |-> content]

\* Python's s[-n:]
LastN(s, n) == SubSeq(s, IF Len(s) > n THEN Len(s) - n + 1 ELSE 1, Len(s))

NoPrompt == << >>

\* random.choice(responses): one of the canned replies
MockReply == "mock"
ModelReply == "reply"

ChatPrompt_AllHistory(user_message, chat_history) ==
    <<Message("system", "system_prompt")>> \o chat_history
        \o <<Message("user", user_message)>>

\* messages = [system] + chat_history[-6:] + [user message]
ChatPrompt(user_message, chat_history) ==
    <<Message("system", "system_prompt")>> \o LastN(chat_history, PromptContext)
        \o <<Message("user", user_message)>>

\* The outcomes of chat_with_artwork: the prompt handed to the model (none
\* on the mock path or without a client) and the reply returned.
chat_with_artwork(useAI, user_message, chat_history) ==
    IF useAI
    THEN {[prompt |-> ChatPrompt(user_message, chat_history), reply |-> ModelReply],
          [prompt |-> ChatPrompt(user_message, chat_history), reply |-> MockReply],
          [prompt |-> NoPrompt, reply |-> MockReply]}
    ELSE {[prompt |-> NoPrompt, reply |-> MockReply]}

NoChatResp == [status |-> 0, key |-> <<"", 0>>, response |-> Absent, before |-> << >>]

ChatInit ==
    /\ session = [k \in ChatKeys |-> << >>]
    /\ chatLog = [k \in ChatKeys |-> << >>]
    /\ chatPrompt = NoPrompt
    /\ chatResp = NoChatResp

RECURSIVE ChatTotal(_)
ChatTotal(keys) ==
    IF keys = {} THEN 0
    ELSE LET k == CHOOSE x \in keys : TRUE
         IN  Len(chatLog[k]) \div 2 + ChatTotal(keys \ {k})

Truncate_KeepAll(chat_history) == chat_history

\* chat_history[-10:]
Truncate(chat_history) == LastN(chat_history, HistoryKept)

\* f'chat_{current_user.id}_{artwork_id}'
ChatKey(u, artwork_id) == <<u, artwork_id>>

\* POST /api/chat/<artwork_id>
ChatMode(u, artwork_id, user_message) ==
    IF artwork_id \notin ChatArtworks
    THEN /\ chatResp' = [status |-> 404, key |-> <<u, artwork_id>>, response |-> Absent,
                         before |-> << >>]
         /\ chatPrompt' = NoPrompt
         /\ UNCHANGED <<session, chatLog>>
    ELSE LET chat_key == ChatKey(u, artwork_id)
             chat_history == session[chat_key]
         IN  /\ ChatTotal(ChatKeys) < MaxChats
             /\ \E out \in chat_with_artwork(USE_REAL_AI, user_message, chat_history) :
                  LET exchange == <<Message("user", user_message),
                                    Message("assistant", out.reply)>>
                  IN  /\ session' = [session EXCEPT
                                        ![chat_key] = Truncate(chat_history \o exchange)]
                      /\ chatLog' = [chatLog EXCEPT
                                        ![<<u, artwork_id>>] = @ \o exchange]
                      /\ chatPrompt' = out.prompt
                      /\ chatResp' = [status |-> 200, key |-> <<u, artwork_id>>,
                                      response |-> out.reply, before |-> chatLog[<<u, artwork_id>>]]

----------------------------------------------------------------------------
(* app.recognize and app.create_artwork served by two threads: each request *)
(* runs its queries and its commit as separate steps                         *)

IdleStoreRequest ==
    [pc |-> "idle", op |-> "none", user |-> None, image_hash |-> None, result |-> NoResult,
     title |-> Absent, artist |-> Absent, found |-> 0, confidence |-> 0,
     found_hash |-> None]

RaceInit == storeReq = [w \in Workers |-> IdleStoreRequest]

MaxRaceRequests == 2

\* what an earlier recognition by another user left in the store: a mock
\* result carries no confidence and is stored with 0.0 (app.py line 134)
EarlierArtwork ==
    [id |-> 1, title |-> "The Starry Night", artist |-> "Vincent van Gogh",
     confidence |-> 0, image_hash |-> "h1"]

\* the store the two threads start from: empty, or holding EarlierArtwork
RaceStoreInit ==
    /\ USE_REAL_AI \in BOOLEAN
    /\ lastResp = NoResp
    /\ \/ /\ artworks = << >>
          /\ users = [u \in Users |-> NoUser]
          /\ firstUpload = [h \in Hashes |-> 0]
       \/ /\ artworks = <<EarlierArtwork>>
          /\ users = [u \in Users |-> IF u = "u2" THEN Discover(NoUser) ELSE NoUser]
          /\ firstUpload = [h \in Hashes |-> IF h = "h1" THEN 1 ELSE 0]

InFlight == Cardinality({w \in Workers : storeReq[w].pc # "idle"})

\* app.py lines 99-121: the hash lookup, then the call of recognize_artwork
RecognizeHashLookup(w, u, h, res) ==
    /\ storeReq[w].pc = "idle"
    /\ users[u].artworks_discovered + InFlight < MaxRaceRequests
    /\ LET hit == CachedArtwork(h) IN
       IF hit # 0
       THEN /\ lastResp' = ArtworkResp("recognize", u, h, artworks[hit], TRUE, FALSE, NoResult)
            /\ UNCHANGED storeReq
       ELSE IF res.success = Absent
       THEN /\ lastResp' = ErrorResp("recognize", u, h, 500, TRUE, res)
            /\ UNCHANGED storeReq
       ELSE IF ~Truthy(res.success)
       THEN /\ lastResp' = ErrorResp("recognize", u, h, 404, TRUE, res)
            /\ UNCHANGED storeReq
       ELSE /\ storeReq' = [storeReq EXCEPT ![w] =
                              [IdleStoreRequest EXCEPT !.pc = "title", !.op = "recognize",
                                  !.user = u, !.image_hash = h, !.result = res,
                                  !.title = res.title, !.artist = res.artist]]
            /\ UNCHANGED lastResp
    /\ UNCHANGED <<USE_REAL_AI, artworks, users, firstUpload>>

\* app.py line 124: the row of the title as this request's session loads it
RecognizeTitleLookup(w) ==
    /\ storeReq[w].pc = "title"
    /\ LET found == First({i \in DOMAIN artworks : artworks[i].title = storeReq[w].title})
       IN storeReq' = [storeReq EXCEPT
                         ![w].pc = "write",
                         ![w].found = found,
                         ![w].confidence = IF found = 0 THEN 0 ELSE artworks[found].confidence,
                         ![w].found_hash = IF found = 0 THEN None
                                           ELSE artworks[found].image_hash]
    /\ UNCHANGED <<USE_REAL_AI, artworks, users, lastResp, firstUpload>>

\* app.py lines 126-164: the insert, or the UPDATE of the attributes this
\* request changed on the row it loaded, and the commits
RecognizeCommit(w) ==
    /\ storeReq[w].pc = "write"
    /\ LET r == storeReq[w]
           new_confidence == GetConfidence(r.result)
           id == IF r.found = 0 THEN Len(artworks) + 1 ELSE r.found
           store ==
              IF r.found = 0
              THEN Append(artworks,
                          [id |-> id, title |-> r.title, artist |-> r.artist,
                           confidence |-> new_confidence, image_hash |-> r.image_hash])
              ELSE [artworks EXCEPT
                      ![id].confidence =
                          IF UpdatedConfidence(r.confidence, new_confidence) # r.confidence
                          THEN new_confidence ELSE @,
                      ![id].image_hash =
                          IF UpdatedHash(r.found_hash, r.image_hash) # r.found_hash
                          THEN r.image_hash ELSE @]
       IN /\ artworks' = store
          /\ users' = [users EXCEPT ![r.user] = Discover(@)]
          /\ lastResp' = ArtworkResp("recognize", r.user, r.image_hash, store[id],
                                     FALSE, TRUE, r.result)
          /\ firstUpload' = IF r.image_hash # None /\ firstUpload[r.image_hash] = 0
                            THEN [firstUpload EXCEPT ![r.image_hash] = id]
                            ELSE firstUpload
          /\ storeReq' = [storeReq EXCEPT ![w] = IdleStoreRequest]
    /\ UNCHANGED USE_REAL_AI

\* app.py lines 361-387: the lookup by (title, artist)
CreateArtworkLookup(w, u, title, artist) ==
    /\ storeReq[w].pc = "idle"
    /\ users[u].artworks_discovered + InFlight < MaxRaceRequests
    /\ LET existing == ExistingArtwork(title, artist) IN
       IF existing # 0
       THEN /\ users' = [users EXCEPT ![u] = Discover(@)]
            /\ lastResp' = ArtworkResp("create_artwork", u, None, artworks[existing],
                                       FALSE, FALSE, NoResult)
            /\ UNCHANGED storeReq
       ELSE /\ storeReq' = [storeReq EXCEPT ![w] =
                              [IdleStoreRequest EXCEPT !.pc = "insert",
                                  !.op = "create_artwork", !.user = u,
                                  !.title = title, !.artist = artist]]
            /\ UNCHANGED <<users, lastResp>>
    /\ UNCHANGED <<USE_REAL_AI, artworks, firstUpload>>

\* app.py lines 389-412: the insert and the commit
CreateArtworkInsert(w) ==
    /\ storeReq[w].pc = "insert"
    /\ LET r == storeReq[w]
           id == Len(artworks) + 1
       IN /\ artworks' = Append(artworks,
                                [id |-> id, title |-> r.title, artist |-> r.artist,
                                 confidence |-> MuseumConfidence, image_hash |-> None])
          /\ users' = [users EXCEPT ![r.user] = Discover(@)]
          /\ lastResp' = ArtworkResp("create_artwork", r.user, None, artworks'[id],
                                     FALSE, FALSE, NoResult)
          /\ storeReq' = [storeReq EXCEPT ![w] = IdleStoreRequest]
    /\ UNCHANGED <<USE_REAL_AI, firstUpload>>

----------------------------------------------------------------------------
(* museum_api_search.infer_art_movement *)

\* Text is a sequence of tokens: a token is a piece of a word that the
\* keywords of the code do not cut ("Sur" + "realism", "Post-" + "Impressionism"),
\* so that Python's substring test is containment of a contiguous run of tokens.
Contains(text, part) ==
    \E i \in 1..(Len(text) - Len(part) + 1) :
        SubSeq(text, i, i + Len(part) - 1) = part

\* str.lower() of a token
LowerToken(t) ==
    CASE t = "Claude" -> "claude"
      [] t = "Starry" -> "starry"
      [] t = "Night" -> "night"
      [] t = "The" -> "the"
      [] t = "Irises" -> "irises"
      [] t = "Monet" -> "monet"
      [] t = "Vincent" -> "vincent"
      [] t = "Gogh" -> "gogh"
      [] t = "Rembrandt" -> "rembrandt"
      [] t = "Post-" -> "post-"
      [] t = "Impressionism" -> "impressionism"
      [] t = "Sur" -> "sur"
      [] t = "Portraits" -> "portraits"
      [] t = "Baroque" -> "baroque"
      [] OTHER -> t

Lower(text) == [i \in DOMAIN text |-> LowerToken(text[i])]

\* lines 25-29, in the order of the list
movements ==
    << <<"renaissance">>, <<"baroque">>, <<"rococo">>, <<"neoclassicism">>,
       <<"romanticism">>, <<"realism">>, <<"impressionism">>,
       <<"post-", "impressionism">>, <<"expressionism">>, <<"cubism">>,
       <<"sur", "realism">>, <<"abstract">>, <<"modernism">>, <<"contemporary">> >>

\* str.title() of a keyword
TitleCase(keyword) ==
    CASE keyword = <<"renaissance">> -> "Renaissance"
      [] keyword = <<"baroque">> -> "Baroque"
      [] keyword = <<"rococo">> -> "Rococo"
      [] keyword = <<"neoclassicism">> -> "Neoclassicism"
      [] keyword = <<"romanticism">> -> "Romanticism"
      [] keyword = <<"realism">> -> "Realism"
      [] keyword = <<"impressionism">> -> "Impressionism"
      [] keyword = <<"post-", "impressionism">> -> "Post-Impressionism"
      [] keyword = <<"expressionism">> -> "Expressionism"
      [] keyword = <<"cubism">> -> "Cubism"
      [] keyword = <<"sur", "realism">> -> "Surrealism"
      [] keyword = <<"abstract">> -> "Abstract"
      [] keyword = <<"modernism">> -> "Modernism"
      [] OTHER -> "Contemporary"

\* lines 30-32 for one tag: the first keyword of the list the tag contains, 0 when none
TagKeyword(tag_name) ==
    LET hits == {k \in DOMAIN movements : Contains(tag_name, movements[k])}
    IN IF hits = {} THEN 0 ELSE CHOOSE k \in hits : \A l \in hits : k <= l

\* lines 22-32: the first tag that contains a keyword decides; "" when none does
TagMovement(tags) ==
    LET hits == {i \in DOMAIN tags : TagKeyword(Lower(tags[i])) # 0}
    IN IF hits = {} THEN ""
       ELSE LET i == CHOOSE i \in hits : \A j \in hits : i <= j
            IN TitleCase(movements[TagKeyword(Lower(tags[i]))])

\* line 38: the year the regular expression \b(1[4-9]\d{2}|20\d{2})\b finds.
\* year_str is a sequence of words; a word of digits only is [kind "num"]
\* with its value, any other word [kind "text"].  0 when nothing matches.
YearMatches(word) ==
    /\ word.kind = "num"
    /\ \/ (word.value >= 1400 /\ word.value <= 1999)
       \/ (word.value >= 2000 /\ word.value <= 2099)

ExtractYear(year_str) ==
    LET hits == {i \in DOMAIN year_str : YearMatches(year_str[i])}
    IN IF hits = {} THEN 0
       ELSE year_str[CHOOSE i \in hits : \A j \in hits : i <= j].value

impressionists ==
    { <<"monet">>, <<"renoir">>, <<"degas">>, <<"pissarro">>, <<"sisley">>,
      <<"morisot">>, <<"cassatt">> }
post_impressionists ==
    { <<"van", "gogh">>, <<"cezanne">>, <<"gauguin">>, <<"seurat">>,
      <<"toulouse-lautrec">> }

\* lines 45-76
YearMovement(year, artist_name) ==
    IF year < 1400 THEN "Medieval"
    ELSE IF year < 1600 THEN "Renaissance"
    ELSE IF year < 1750 THEN "Baroque"
    ELSE IF year < 1800 THEN "Neoclassicism"
    ELSE IF year < 1850 THEN "Romanticism"
    ELSE IF year < 1880 THEN "Realism"
    ELSE IF year < 1905 THEN
        IF \E name \in impressionists : Contains(Lower(artist_name), name)
        THEN "Impressionism"
        ELSE IF \E name \in post_impressionists : Contains(Lower(artist_name), name)
        THEN "Post-Impressionism"
        ELSE "Late 19th Century"
    ELSE IF year < 1920 THEN "Early Modernism"
    ELSE IF year < 1945 THEN "Modernism"
    ELSE IF year < 1970 THEN "Post-War Art"
    ELSE IF year < 2000 THEN "Contemporary"
    ELSE "21st Century"

WesternCultures == {"American", "European", "French", "Italian"}

\* lines 10-79.  artwork_data: culture ("" when missing or null), tags (a list,
\* tags_null when the API sends null, which the for loop cannot iterate),
\* classification ("" when missing or null)
infer_art_movement(artwork_data, artist_name, year_str) ==
    IF artwork_data.culture # "" /\ artwork_data.culture \notin WesternCultures
    THEN artwork_data.culture
    ELSE IF artwork_data.tags_null
    THEN "raise"
    ELSE IF TagMovement(artwork_data.tags) # ""
    THEN TagMovement(artwork_data.tags)
    ELSE IF ExtractYear(year_str) # 0
    THEN YearMovement(ExtractYear(year_str), artist_name)
    ELSE IF artwork_data.classification # ""
    THEN artwork_data.classification
    ELSE "Unknown"

Num(n) == [kind |-> "num", value |-> n]
Word == [kind |-> "text", value |-> 0]

TagTerms ==
    { <<"Portraits">>, <<"Baroque">>, <<"Post-", "Impressionism">>, <<"Sur", "realism">> }

TagLists ==
    UNION { [1..n -> TagTerms] : n \in 0..MaxTags }

ArtistNames ==
    { << >>, <<"Claude", "Monet">>, <<"Vincent", "van", "Gogh">>, <<"Rembrandt">> }

YearStrings ==
    { << >>, <<Word>>, <<Num(1300)>>, <<Num(1450)>>, <<Num(1650)>>, <<Num(1780)>>,
      <<Num(1820)>>, <<Num(1870)>>, <<Word, Num(1870), Num(1880)>>, <<Num(1889)>>,
      <<Num(1910)>>, <<Num(1930)>>, <<Num(1950)>>, <<Num(1980)>>, <<Num(2010)>>,
      <<Num(18705)>> }

MovementInputs ==
    { [artwork_data |-> [culture |-> c, tags_null |-> FALSE, tags |-> t,
                         classification |-> k],
       artist_name |-> a, year_str |-> y] :
        c \in {"", "French", "Japan"}, t \in TagLists, k \in {"", "Paintings"},
        a \in ArtistNames, y \in YearStrings }
    \cup
    { [artwork_data |-> [culture |-> c, tags_null |-> TRUE, tags |-> << >>,
                         classification |-> ""],
       artist_name |-> a, year_str |-> y] :
        c \in {"", "Japan"}, a \in ArtistNames, y \in YearStrings }

MovementInit ==
    /\ mvIn \in MovementInputs
    /\ mvOut = ""
    /\ mvPc = "call"

MovementIdle ==
    /\ mvIn = [artwork_data |-> [culture |-> "", tags_null |-> FALSE, tags |-> << >>,
                                 classification |-> ""],
               artist_name |-> << >>, year_str |-> << >>]
    /\ mvOut = ""
    /\ mvPc = "call"

MovementCall ==
    /\ mvPc = "call"
    /\ mvOut' = infer_art_movement(mvIn.artwork_data, mvIn.artist_name, mvIn.year_str)
    /\ mvPc' = "done"
    /\ UNCHANGED mvIn

----------------------------------------------------------------------------
(* The museum cross-reference: museum_api_search.search_met_artwork,          *)
(* find_related_artworks_by_artist, find_related_artworks_by_style            *)

\* The answer of the object endpoint for one id: fetch_ok is FALSE when the
\* request fails (network, timeout, non-2xx, malformed body); primaryImage is
\* "" when the field is missing, null or empty.  Titles and names are sequences
\* of words.
MetObject(ok, image, title, artist) ==
    [fetch_ok |-> ok, primaryImage |-> image, title |-> title,
     artistDisplayName |-> artist, objectDate |-> <<Num(1889)>>,
     culture |-> "", tags_null |-> FALSE, tags |-> << >>, classification |-> "Paintings"]

FailedFetch == MetObject(FALSE, "", << >>, << >>)

\* len() of a text: the letters of its words and the blanks between them
WordLen(w) ==
    CASE w \in {"the", "van"} -> 3
      [] w = "gogh" -> 4
      [] w \in {"night", "monet"} -> 5
      [] w \in {"starry", "irises", "claude"} -> 6
      [] OTHER -> 7

RECURSIVE CharLen(_)
CharLen(text) ==
    IF text = << >> THEN 0
    ELSE WordLen(Head(text)) + (IF Len(text) > 1 THEN 1 ELSE 0) + CharLen(Tail(text))

\* the image test that lets every object through
HasImage_Always(artwork_data) == TRUE

\* lines 128, 282, 360: if not artwork_data.get('primaryImage'): continue
HasImage(artwork_data) == artwork_data.primaryImage # ""

\* lines 135-145
TitleScore(obj_title, search_title) ==
    IF obj_title = search_title THEN ExactScore
    ELSE IF Contains(obj_title, search_title)
    THEN IF 2 * CharLen(search_title) > CharLen(obj_title)
         THEN PartialScore ELSE WeakTitleScore
    ELSE IF Contains(search_title, obj_title) THEN ContainedTitleScore
    ELSE 0

\* lines 148-158
ArtistScore(obj_artist, search_artist) ==
    IF obj_artist = << >> \/ search_artist = << >> THEN 0
    ELSE IF obj_artist = search_artist THEN ExactScore
    ELSE IF Contains(obj_artist, search_artist) \/ Contains(search_artist, obj_artist)
    THEN PartialScore
    ELSE IF obj_artist[Len(obj_artist)] = search_artist[Len(search_artist)]
    THEN LastNameScore
    ELSE 0

MatchScore(artwork_data, artwork_title, artist_name) ==
    TitleScore(Lower(artwork_data.title), Lower(artwork_title))
        + ArtistScore(Lower(artwork_data.artistDisplayName), Lower(artist_name))

Prefix(seq, n) == SubSeq(seq, 1, IF Len(seq) < n THEN Len(seq) ELSE n)

\* the loop that lets a later candidate of equal score replace the best match
RECURSIVE BestMatch_LastTie(_, _, _, _, _, _)
BestMatch_LastTie(objects, i, best, best_score, artwork_title, artist_name) ==
    IF i > Len(objects) THEN best
    ELSE LET o == objects[i]
             score == MatchScore(o, artwork_title, artist_name)
         IN IF o.fetch_ok /\ HasImage(o) /\ score >= MinScore /\ score >= best_score
            THEN BestMatch_LastTie(objects, i + 1, i, score, artwork_title, artist_name)
            ELSE BestMatch_LastTie(objects, i + 1, best, best_score, artwork_title, artist_name)

\* lines 112-169: the loop over the candidates; best is the index of the best
\* match so far (0 for None)
RECURSIVE BestMatch(_, _, _, _, _, _)
BestMatch(objects, i, best, best_score, artwork_title, artist_name) ==
    IF i > Len(objects) THEN best
    ELSE LET o == objects[i]
             score == MatchScore(o, artwork_title, artist_name)
         IN IF o.fetch_ok /\ HasImage(o) /\ score >= MinScore /\ score > best_score
            THEN BestMatch(objects, i + 1, i, score, artwork_title, artist_name)
            ELSE BestMatch(objects, i + 1, best, best_score, artwork_title, artist_name)

\* An entry of a returned list; for search_met_artwork title and artist are
\* those of best_match (the code returns its image_url and museum fields).
\* source stands for the keys that tell the entries apart: an entry of the
\* artist search carries met_url, department and medium, an entry of the style
\* search does not.  Neither carries a similarity.
Entry(o, movement, source) ==
    [title |-> o.title, artist |-> o.artistDisplayName, image_url |-> o.primaryImage,
     movement |-> movement, source |-> source, similarity |-> Absent]

\* lines 83-200; search is [ok, objects]: the search request and the objects
\* behind the ids it lists
search_met_artwork(search, artwork_title, artist_name) ==
    IF ~search.ok \/ search.objects = << >> THEN << >>
    ELSE LET object_ids == Prefix(search.objects, SearchCandidates)
             best == BestMatch(object_ids, 1, 0, 0, artwork_title, artist_name)
         IN IF best = 0 THEN << >>
            ELSE IF object_ids[best].primaryImage # ""
            THEN <<Entry(object_ids[best], "", "met")>>
            ELSE << >>

\* lines 270-313: the loop of find_related_artworks_by_artist
RECURSIVE ArtistLoop(_, _, _, _, _)
ArtistLoop(objects, i, related, exclude_title, limit) ==
    IF i > Len(objects) \/ Len(related) >= limit THEN related
    ELSE LET o == objects[i]
             movement == infer_art_movement(o, o.artistDisplayName, o.objectDate)
         IN IF ~o.fetch_ok \/ ~HasImage(o) \/ movement = "raise"
               \/ (exclude_title # << >> /\ Lower(o.title) = Lower(exclude_title))
            THEN ArtistLoop(objects, i + 1, related, exclude_title, limit)
            ELSE ArtistLoop(objects, i + 1, Append(related, Entry(o, movement, "artist")),
                            exclude_title, limit)

\* lines 246-320
find_related_artworks_by_artist(search, exclude_title, limit) ==
    IF ~search.ok \/ search.objects = << >> THEN << >>
    ELSE ArtistLoop(Prefix(search.objects, RelatedCandidates), 1, << >>, exclude_title, limit)

\* lines 348-382: the loop of find_related_artworks_by_style
RECURSIVE StyleLoop(_, _, _, _)
StyleLoop(objects, i, related, limit) ==
    IF i > Len(objects) \/ Len(related) >= limit THEN related
    ELSE LET o == objects[i]
             movement == infer_art_movement(o, o.artistDisplayName, o.objectDate)
         IN IF ~o.fetch_ok \/ ~HasImage(o) \/ movement = "raise"
            THEN StyleLoop(objects, i + 1, related, limit)
            ELSE StyleLoop(objects, i + 1, Append(related, Entry(o, movement, "style")), limit)

\* the style search without the try around a single object: a failed detail
\* request ends in the outer handler
find_related_artworks_by_style_NoInnerTry(search, limit) ==
    IF ~search.ok \/ search.objects = << >>
       \/ (\E i \in DOMAIN search.objects : ~search.objects[i].fetch_ok)
    THEN << >>
    ELSE StyleLoop(Prefix(search.objects, RelatedCandidates), 1, << >>, limit)

\* lines 324-389
find_related_artworks_by_style(search, limit) ==
    IF ~search.ok \/ search.objects = << >> THEN << >>
    ELSE StyleLoop(Prefix(search.objects, RelatedCandidates), 1, << >>, limit)

\* the objects the cross-reference is driven with
MetTitles == { <<"Starry", "Night">>, <<"The", "Starry", "Night">>, <<"Irises">> }
MetArtists == { <<"Vincent", "van", "Gogh">>, <<"Claude", "Monet">> }
MetImage == "https://images.metmuseum.org/a.jpg"

\* a failed fetch, the searched title without an image, and every title with one
MetObjects ==
    {FailedFetch}
    \cup { MetObject(TRUE, "", <<"Starry", "Night">>, a) : a \in MetArtists }
    \cup { MetObject(TRUE, MetImage, t, a) : t \in MetTitles, a \in MetArtists }

\* the answers of a search: a failed request, or up to n of the objects
MetSearches(objects, n) ==
    { [ok |-> TRUE, objects |-> l] : l \in UNION { [1..k -> objects] : k \in 0..n } }
    \cup { [ok |-> FALSE, objects |-> << >>] }

SearchedTitle == <<"Starry", "Night">>
SearchedArtist == <<"Vincent", "van", "Gogh">>

MetFunctions ==
    { [fn |-> "search_met_artwork", limit |-> 0] }
    \cup { [fn |-> f, limit |-> n] :
             f \in {"find_related_artworks_by_artist", "find_related_artworks_by_style"},
             n \in {1, 3} }

MetInit ==
    /\ \E f \in MetFunctions, q \in MetSearches(MetObjects, MaxObjects) :
          metIn = [fn |-> f.fn, search |-> q, limit |-> f.limit]
    /\ metOut = << >>
    /\ metPc = "call"

MetIdle ==
    /\ metIn = [fn |-> "search_met_artwork",
                search |-> [ok |-> FALSE, objects |-> << >>], limit |-> 0]
    /\ metOut = << >>
    /\ metPc = "call"

SearchMetArtwork ==
    /\ metPc = "call"
    /\ metIn.fn = "search_met_artwork"
    /\ metOut' = search_met_artwork(metIn.search, SearchedTitle, SearchedArtist)
    /\ metPc' = "done"
    /\ UNCHANGED metIn

FindRelatedByArtist ==
    /\ metPc = "call"
    /\ metIn.fn = "find_related_artworks_by_artist"
    /\ metOut' = find_related_artworks_by_artist(metIn.search, SearchedTitle, metIn.limit)
    /\ metPc' = "done"
    /\ UNCHANGED metIn

FindRelatedByStyle ==
    /\ metPc = "call"
    /\ metIn.fn = "find_related_artworks_by_style"
    /\ metOut' = find_related_artworks_by_style(metIn.search, metIn.limit)
    /\ metPc' = "done"
    /\ UNCHANGED metIn

----------------------------------------------------------------------------
(* The related-content assembler: app.get_related_content with              *)
(* ai_services.get_related_artworks_and_context,                            *)
(* ai_services.generate_similarity_explanations and                         *)
(* museum_api_search.get_artwork_image_url.  The handler is followed from   *)
(* one external call to the next: rel.pc is its position.                   *)

StarryNight == <<"Starry", "Night">>
Irises == <<"Irises">>
WaterLilies == <<"Water", "Lilies">>
Sunflowers == <<"Sunflowers">>
VanGogh == <<"Vincent", "van", "Gogh">>
Monet == <<"Claude", "Monet">>

UploadedImage == "/static/uploads/a.jpg"
\* get_artwork_image_url line 241-242
PlaceholderImage == "https://via.placeholder.com/400x300/7c3aed/ffffff?text="
\* the placeholder test that finds none
IsPlaceholder_Never(image_url) == FALSE

\* app.py line 295: 'placeholder' not in image_url
IsPlaceholder(image_url) == image_url = PlaceholderImage

\* the rows of the Artwork table the assembler reads (it writes none)
RelatedArtworks ==
    <<[title |-> StarryNight, artist |-> VanGogh, movement |-> "Post-Impressionism",
       image_url |-> UploadedImage],
      [title |-> WaterLilies, artist |-> << >>, movement |-> "Unknown",
       image_url |-> PlaceholderImage],
      [title |-> Sunflowers, artist |-> << >>, movement |-> "Post-Impressionism",
       image_url |-> UploadedImage]>>

\* the artworks the requests name: a row with artist and movement and a row
\* with neither
RequestedArtworks == {1, 2}
\* two rows of the same movement
SameMovementArtworks == {1, 3}

\* an id without a row: get_or_404 answers 404
MissingArtwork == Len(RelatedArtworks) + 1
RelatedUsers == {"u1"}
CacheUsers == {"u1", "u2"}

\* the objects the Met answers with in the assembler's searches
RelatedObjects ==
    { FailedFetch,
      MetObject(TRUE, "", Irises, VanGogh),
      MetObject(TRUE, MetImage, Irises, VanGogh) }

RelatedSearches == MetSearches(RelatedObjects, MaxObjects)

\* an entry of similar_artworks in the model's answer: no image_url, no movement
Suggestion(title, artist, similarity) ==
    [title |-> title, artist |-> artist, image_url |-> Absent,
     movement |-> Absent, source |-> "ai", similarity |-> similarity]

\* in the Artwork table with an uploaded image
SuggestDb == Suggestion(StarryNight, VanGogh, "ai_similarity")
\* not in the Artwork table: looked up at the Met
SuggestMet == Suggestion(Irises, VanGogh, "")
\* in the Artwork table with a placeholder image
SuggestPlaceholder == Suggestion(WaterLilies, Monet, Absent)

\* ai_services.py lines 636-675; shape is "null" when similar_artworks is not
\* a list of objects
mock_data ==
    [set |-> FALSE, shape |-> "list",
     similar_artworks |->
        << Suggestion(WaterLilies, Monet, "mock_similarity"),
           Suggestion(<<"Impression", "Sunrise">>, Monet, "mock_similarity"),
           Suggestion(<<"The", "Scream">>, <<"Edvard", "Munch">>, "mock_similarity") >>,
     historical_context |-> "mock"]

\* what json.loads makes of the model's answer (lines 619-626)
ParsedContents ==
    { [set |-> FALSE, shape |-> "list", similar_artworks |-> l,
        historical_context |-> "ai"] :
        l \in { << >>, <<SuggestPlaceholder, SuggestDb, SuggestMet>>,
                <<SuggestDb, SuggestDb, SuggestMet, SuggestDb>> } }
    \cup { [set |-> FALSE, shape |-> "null", similar_artworks |-> << >>,
             historical_context |-> "ai"] }

\* lines 569-675 on a cache miss: the parsed answer, or mock_data when the
\* call fails, the answer holds no JSON object or the JSON does not parse
GeneratedContents(useAI) ==
    IF useAI THEN ParsedContents \cup {mock_data} ELSE {mock_data}

\* the explanations generate_similarity_explanations parses (lines 737-739);
\* "failure" is an exception, an answer without a JSON array or a parse error
\* the sentence the model writes about an entry depends on the current
\* artwork named in the prompt (lines 702-705)
ExplanationFor(a) ==
    CASE a = 1 -> "ai_explanation_of_1"
      [] a = 2 -> "ai_explanation_of_2"
      [] OTHER -> "ai_explanation_of_3"

ExplanationLists(a) ==
    { << >>,
      <<[title |-> Irises, similarity |-> ExplanationFor(a)]>>,
      <<[title |-> << >>, similarity |-> ""]>> }

ExplanationOutcomes(useAI, a) ==
    IF useAI
    THEN {[kind |-> "failure", explanations |-> << >>]}
         \cup {[kind |-> "list", explanations |-> l] : l \in ExplanationLists(a)}
    ELSE {[kind |-> "none", explanations |-> << >>]}

\* lines 687-688, 760-761
DefaultExplanation(art) ==
    IF art.similarity = Absent
    THEN [art EXCEPT !.similarity = "created_by_default"] ELSE art

\* lines 742-750
RECURSIVE MatchExplanation(_, _, _)
MatchExplanation(art, explanations, i) ==
    IF i > Len(explanations) THEN art
    ELSE IF Contains(Lower(art.title), Lower(explanations[i].title))
    THEN [art EXCEPT !.similarity = explanations[i].similarity]
    ELSE MatchExplanation(art, explanations, i + 1)

Explained(art, explanations) ==
    LET a == MatchExplanation(art, explanations, 1)
    IN IF a.similarity = Absent \/ a.similarity = ""
       THEN [a EXCEPT !.similarity = "related_by_default"] ELSE a

\* ai_services.py lines 678-764
generate_similarity_explanations(useAI, related_artworks, outcome) ==
    IF ~useAI \/ related_artworks = << >> \/ outcome.kind # "list"
    THEN [i \in DOMAIN related_artworks |-> DefaultExplanation(related_artworks[i])]
    ELSE [i \in DOMAIN related_artworks |->
            Explained(related_artworks[i], outcome.explanations)]

Unset == [set |-> FALSE, value |-> << >>]
Memo(value) == [set |-> TRUE, value |-> value]
NoContent == [set |-> FALSE, shape |-> "list", similar_artworks |-> << >>,
              historical_context |-> ""]
NoBundle == [set |-> FALSE, similar_artworks |-> << >>, historical_context |-> ""]

\* the keys of search_met_artwork's memo: the suggestions looked up
SuggestionKeys ==
    { <<s.title, s.artist>> :
        s \in {SuggestDb, SuggestMet, SuggestPlaceholder}
              \cup { mock_data.similar_artworks[i] : i \in 1..3 } }

IdleRequest ==
    [pc |-> "idle", artwork_id |-> 0, user |-> None, related_artworks |-> << >>,
     nArtist |-> 0, nStyle |-> 0, styleLimit |-> 0, aiIndex |-> << >>, next |-> 0,
     ranStyle |-> FALSE, ranAI |-> FALSE, searchFailed |-> FALSE]

NoRelatedResp == [status |-> 0, artwork_id |-> 0, user |-> None, cached |-> FALSE,
                  similar_artworks |-> << >>, historical_context |-> ""]

ArtistKeys ==
    { <<RelatedArtworks[i].artist, RelatedArtworks[i].title>> : i \in DOMAIN RelatedArtworks }
StyleKeys ==
    { <<RelatedArtworks[i].movement, n>> : i \in DOMAIN RelatedArtworks, n \in 0..RelatedQuota }
BundleKeys == (DOMAIN RelatedArtworks \cup {MissingArtwork}) \X CacheUsers

RelatedInit ==
    /\ relCache = [k \in BundleKeys |-> NoBundle]
    /\ artistMemo = [k \in ArtistKeys |-> Unset]
    /\ styleMemo = [k \in StyleKeys |-> Unset]
    /\ searchMemo = [k \in SuggestionKeys |-> Unset]
    /\ aiContentCache = [i \in DOMAIN RelatedArtworks |-> NoContent]
    /\ rel = IdleRequest
    /\ relResp = NoRelatedResp

RelatedResp(status, cached, similar_artworks, historical_context) ==
    [status |-> status, artwork_id |-> rel.artwork_id, user |-> rel.user,
     cached |-> cached, similar_artworks |-> similar_artworks,
     historical_context |-> historical_context]

\* the cache key that leaves the user out
CacheKey_NoUser(artwork_id, u) == <<artwork_id, "u1">>

\* app.py line 250: f"related_{artwork_id}_{current_user.id}"
CacheKey(artwork_id, u) == <<artwork_id, u>>

\* the quota test that always asks for more
NeedsMore_Always(related_artworks) == TRUE

\* app.py lines 273, 281: len(related_artworks) < 3
NeedsMore(related_artworks) == Len(related_artworks) < RelatedQuota

\* app.py lines 247-255: the cache lookup and get_or_404
RelatedRequest(a, u) ==
    /\ rel.pc = "idle"
    /\ IF relCache[CacheKey(a, u)].set
       THEN /\ relResp' = [status |-> 200, artwork_id |-> a, user |-> u, cached |-> TRUE,
                           similar_artworks |-> relCache[CacheKey(a, u)].similar_artworks,
                           historical_context |-> relCache[CacheKey(a, u)].historical_context]
            /\ UNCHANGED rel
       ELSE IF a \notin DOMAIN RelatedArtworks
       THEN /\ relResp' = [status |-> 404, artwork_id |-> a, user |-> u, cached |-> FALSE,
                           similar_artworks |-> << >>, historical_context |-> ""]
            /\ UNCHANGED rel
       ELSE /\ rel' = [IdleRequest EXCEPT !.pc = "artist", !.artwork_id = a, !.user = u]
            /\ relResp' = NoRelatedResp
    /\ UNCHANGED <<relCache, artistMemo, styleMemo, searchMemo, aiContentCache>>

\* app.py lines 263-270; lru_cache answers a repeated call from its memo
ArtistStep ==
    /\ rel.pc = "artist"
    /\ LET artwork == RelatedArtworks[rel.artwork_id]
           key == <<artwork.artist, artwork.title>>
           Continue(found, failed) ==
               rel' = [rel EXCEPT !.pc = "style", !.related_artworks = found,
                                  !.nArtist = Len(found), !.searchFailed = failed]
       IN IF artwork.artist = << >>
          THEN rel' = [rel EXCEPT !.pc = "style"] /\ UNCHANGED artistMemo
          ELSE IF artistMemo[key].set
          THEN Continue(artistMemo[key].value, FALSE) /\ UNCHANGED artistMemo
          ELSE \E q \in RelatedSearches :
                  LET found == find_related_artworks_by_artist(q, artwork.title, RelatedQuota)
                  IN /\ artistMemo' = [artistMemo EXCEPT ![key] = Memo(found)]
                     /\ Continue(found, ~q.ok)
    /\ UNCHANGED <<relCache, styleMemo, searchMemo, aiContentCache, relResp>>

\* app.py lines 272-278
StyleStep ==
    /\ rel.pc = "style"
    /\ LET artwork == RelatedArtworks[rel.artwork_id]
           limit == RelatedQuota - Len(rel.related_artworks)
           key == <<artwork.movement, limit>>
           Continue(found, failed) ==
               rel' = [rel EXCEPT !.pc = "ai", !.related_artworks = @ \o found,
                                  !.nStyle = Len(found), !.styleLimit = limit,
                                  !.ranStyle = TRUE, !.searchFailed = failed]
       IN IF ~(NeedsMore(rel.related_artworks)
                /\ artwork.movement # "" /\ artwork.movement # "Unknown")
          THEN rel' = [rel EXCEPT !.pc = "ai", !.searchFailed = FALSE] /\ UNCHANGED styleMemo
          ELSE IF styleMemo[key].set
          THEN Continue(styleMemo[key].value, FALSE) /\ UNCHANGED styleMemo
          ELSE \E q \in RelatedSearches :
                  LET found == find_related_artworks_by_style(q, limit)
                  IN /\ styleMemo' = [styleMemo EXCEPT ![key] = Memo(found)]
                     /\ Continue(found, ~q.ok)
    /\ UNCHANGED <<relCache, artistMemo, searchMemo, aiContentCache, relResp>>

\* app.py lines 281-283 with get_related_artworks_and_context (lines 555-675):
\* similar_artworks that is no list of objects raises out of the handler
AIStep ==
    /\ rel.pc = "ai"
    /\ LET a == rel.artwork_id
           Continue(content) ==
               IF content.shape = "null"
               THEN /\ relResp' = RelatedResp(500, FALSE, << >>, "")
                    /\ rel' = IdleRequest
               ELSE /\ rel' = [rel EXCEPT !.pc = "enrich", !.next = 1, !.ranAI = TRUE]
                    /\ UNCHANGED relResp
       IN IF ~NeedsMore(rel.related_artworks)
          THEN rel' = [rel EXCEPT !.pc = "explain"] /\ UNCHANGED <<aiContentCache, relResp>>
          ELSE IF aiContentCache[a].set
          THEN Continue(aiContentCache[a]) /\ UNCHANGED aiContentCache
          ELSE \E c \in GeneratedContents(USE_REAL_AI) :
                  /\ aiContentCache' = [aiContentCache EXCEPT ![a] = [c EXCEPT !.set = TRUE]]
                  /\ Continue(c)
    /\ UNCHANGED <<relCache, artistMemo, styleMemo, searchMemo>>

\* museum_api_search.get_artwork_image_url lines 223-242; met is what
\* search_multiple_sources finds (<< >> for None)
get_artwork_image_url(db_artwork, met) ==
    IF db_artwork # 0 /\ RelatedArtworks[db_artwork].image_url # ""
    THEN RelatedArtworks[db_artwork].image_url
    ELSE IF met # << >> THEN met[1].image_url
    ELSE PlaceholderImage

\* app.py lines 287-299: one turn of the loop over ai_suggestions
EnrichStep ==
    /\ rel.pc = "enrich"
    /\ LET a == rel.artwork_id
           ai_suggestions == Prefix(aiContentCache[a].similar_artworks, RelatedQuota)
       IN IF rel.next > Len(ai_suggestions)
          THEN /\ rel' = [rel EXCEPT !.pc = "explain"]
               /\ UNCHANGED <<searchMemo, aiContentCache>>
          ELSE LET suggestion == ai_suggestions[rel.next]
                   key == <<suggestion.title, suggestion.artist>>
                   db_artwork == First({i \in DOMAIN RelatedArtworks :
                                           RelatedArtworks[i].title = suggestion.title})
                   Continue(image_url) ==
                       IF image_url # "" /\ ~IsPlaceholder(image_url)
                       THEN LET s == [suggestion EXCEPT !.image_url = image_url]
                                related == Append(rel.related_artworks, s)
                            IN /\ aiContentCache' =
                                    [aiContentCache EXCEPT ![a].similar_artworks[rel.next] = s]
                               /\ rel' = [rel EXCEPT
                                    !.related_artworks = related,
                                    !.aiIndex = Append(@, rel.next),
                                    !.next = @ + 1,
                                    !.pc = IF Len(related) >= RelatedQuota
                                           THEN "explain" ELSE "enrich"]
                       ELSE /\ rel' = [rel EXCEPT !.next = @ + 1]
                            /\ UNCHANGED aiContentCache
               IN IF db_artwork # 0 /\ RelatedArtworks[db_artwork].image_url # ""
                  THEN Continue(get_artwork_image_url(db_artwork, << >>))
                       /\ UNCHANGED searchMemo
                  ELSE IF searchMemo[key].set
                  THEN Continue(get_artwork_image_url(db_artwork, searchMemo[key].value))
                       /\ UNCHANGED searchMemo
                  ELSE \E q \in RelatedSearches :
                          LET met == search_met_artwork(q, suggestion.title, suggestion.artist)
                          IN /\ searchMemo' = [searchMemo EXCEPT ![key] = Memo(met)]
                             /\ Continue(get_artwork_image_url(db_artwork, met))
    /\ UNCHANGED <<relCache, artistMemo, styleMemo, relResp>>

\* app.py lines 301-311.  The entries are the dictionaries the memos and
\* _ai_content_cache hold, so the explanations are written into those too.
ExplainStep ==
    /\ rel.pc = "explain"
    /\ IF rel.related_artworks = << >>
       THEN /\ rel' = [rel EXCEPT !.pc = "context"]
            /\ UNCHANGED <<artistMemo, styleMemo, aiContentCache>>
       ELSE \E outcome \in ExplanationOutcomes(USE_REAL_AI, rel.artwork_id) :
              LET a == rel.artwork_id
                  artwork == RelatedArtworks[a]
                  related == generate_similarity_explanations(
                                 USE_REAL_AI, rel.related_artworks, outcome)
                  met == rel.nArtist + rel.nStyle
              IN /\ rel' = [rel EXCEPT !.pc = "context", !.related_artworks = related]
                 /\ artistMemo' =
                      IF rel.nArtist = 0 THEN artistMemo
                      ELSE [artistMemo EXCEPT ![<<artwork.artist, artwork.title>>] =
                                Memo(SubSeq(related, 1, rel.nArtist))]
                 /\ styleMemo' =
                      IF rel.nStyle = 0 THEN styleMemo
                      ELSE [styleMemo EXCEPT ![<<artwork.movement, rel.styleLimit>>] =
                                Memo(SubSeq(related, rel.nArtist + 1, met))]
                 /\ aiContentCache' =
                      [aiContentCache EXCEPT ![a].similar_artworks =
                          [i \in DOMAIN @ |->
                              IF \E j \in DOMAIN rel.aiIndex : rel.aiIndex[j] = i
                              THEN related[met + CHOOSE j \in DOMAIN rel.aiIndex :
                                                     rel.aiIndex[j] = i]
                              ELSE @[i]]]
    /\ UNCHANGED <<relCache, searchMemo, relResp>>

\* app.py lines 313-333: the context call, cache.set and the response
ContextStep ==
    /\ rel.pc = "context"
    /\ LET a == rel.artwork_id
           Finish(content) ==
               /\ relCache' = [relCache EXCEPT ![CacheKey(a, rel.user)] =
                                  [set |-> TRUE,
                                   similar_artworks |-> rel.related_artworks,
                                   historical_context |-> content.historical_context]]
               /\ relResp' = RelatedResp(200, FALSE, rel.related_artworks, content.historical_context)
               /\ rel' = IdleRequest
       IN IF aiContentCache[a].set
          THEN Finish(aiContentCache[a]) /\ UNCHANGED aiContentCache
          ELSE \E c \in GeneratedContents(USE_REAL_AI) :
                  /\ aiContentCache' = [aiContentCache EXCEPT ![a] = [c EXCEPT !.set = TRUE]]
                  /\ Finish(c)
    /\ UNCHANGED <<artistMemo, styleMemo, searchMemo>>

\* the cache entry times out (app.py line 331: timeout=1800)
CacheExpire(k) ==
    /\ relCache[k].set
    /\ relCache' = [relCache EXCEPT ![k] = NoBundle]
    /\ UNCHANGED <<artistMemo, styleMemo, searchMemo, aiContentCache, rel, relResp>>

----------------------------------------------------------------------------
(* app.quiz_mode served by two threads: the query for the latest attempt and  *)
(* the insert of a new one are separate steps, with generate_quiz in between  *)

IdleQuizRequest ==
    [pc |-> "idle", user |-> None, artwork_id |-> 0, previous |-> 0, status |-> 0,
     quiz_id |-> 0, questions |-> << >>, generated |-> FALSE]

QuizRaceInit == quizReq = [w \in Workers |-> IdleQuizRequest]

\* the requests that are between their query and their insert
PendingInserts == Cardinality({w \in Workers : quizReq[w].pc = "insert"})

\* lines 424-433 and 454-460: get_or_404, then the latest attempt of the pair;
\* an attempt that is not completed is returned as it is
QuizModeLookup(w, u, a) ==
    LET latest == LatestAttempt(u, a)
        request == [IdleQuizRequest EXCEPT !.user = u, !.artwork_id = a]
    IN
    /\ quizReq[w].pc \in {"idle", "done"}
    /\ IF a \notin DOMAIN artworks
       THEN quizReq' = [quizReq EXCEPT ![w] = [request EXCEPT !.pc = "done", !.status = 404]]
       ELSE IF latest # 0 /\ ~quizAttempts[latest].completed
       THEN quizReq' = [quizReq EXCEPT ![w] =
                            [request EXCEPT !.pc = "done", !.status = 200,
                                            !.quiz_id = latest,
                                            !.questions = json_loads(quizAttempts[latest].questions)]]
       ELSE /\ Len(quizAttempts) + PendingInserts < MaxAttempts
            /\ quizReq' = [quizReq EXCEPT ![w] =
                            [request EXCEPT !.pc = "insert", !.previous = latest]]
    /\ UNCHANGED <<USE_REAL_AI, artworks, users, lastResp, firstUpload, quizAttempts, quizResp>>

\* lines 435-452 and 454-460: the first attempt of the pair stores what
\* generate_quiz returned (fresh), a retake the questions of the attempt the
\* query found
QuizModeInsert(w, fresh) ==
    LET r == quizReq[w]
        text == IF r.previous = 0 THEN json_dumps(fresh)
                ELSE RetakeQuestions(quizAttempts[r.previous], fresh)
        attempt == NewAttempt(r.user, r.artwork_id, text)
    IN
    /\ r.pc = "insert"
    /\ quizAttempts' = Append(quizAttempts, attempt)
    /\ quizReq' = [quizReq EXCEPT ![w] =
                        [r EXCEPT !.pc = "done", !.status = 200, !.quiz_id = attempt.id,
                                  !.questions = json_loads(text),
                                  !.generated = (r.previous = 0)]]
    /\ UNCHANGED <<USE_REAL_AI, artworks, users, lastResp, firstUpload, quizResp>>

----------------------------------------------------------------------------
(* Specifications *)

Init == StoreInit /\ GateIdle /\ QuizInit /\ MovementIdle /\ MetIdle /\ RelatedInit /\ QuizRaceInit /\ RaceInit /\ ChatInit /\ GalleryInit /\ QuizGenIdle

Next ==
    \/ RecognizeRequest /\ UNCHANGED <<gateVars, quizVars, mvVars, metVars, relVars, qzVars, galVars, chatVars, raceVars, quizRaceVars>>
    \/ CreateArtworkRequest /\ UNCHANGED <<gateVars, quizVars, mvVars, metVars, relVars, qzVars, galVars, chatVars, raceVars, quizRaceVars>>

InitQuiz ==
    /\ USE_REAL_AI \in BOOLEAN
    /\ artworks = QuizStore
    /\ users = [u \in Users |-> NoUser]
    /\ lastResp = NoResp
    /\ firstUpload = [h \in Hashes |-> 0]
    /\ GateIdle
    /\ QuizInit
    /\ MovementIdle
    /\ MetIdle /\ RelatedInit /\ QuizRaceInit /\ RaceInit /\ ChatInit /\ GalleryInit /\ QuizGenIdle

NextQuiz ==
    \/ QuizModeRequest /\ UNCHANGED <<gateVars, mvVars, metVars, relVars, qzVars, galVars, chatVars, raceVars, quizRaceVars>>
    \/ SubmitQuizRequest /\ UNCHANGED <<gateVars, mvVars, metVars, relVars, qzVars, galVars, chatVars, raceVars, quizRaceVars>>

SpecQuiz == InitQuiz /\ [][NextQuiz]_vars

Spec == Init /\ [][Next]_vars

InitGate == StoreIdle /\ GateInit /\ QuizInit /\ MovementIdle /\ MetIdle /\ RelatedInit /\ QuizRaceInit /\ RaceInit /\ ChatInit /\ GalleryInit /\ QuizGenIdle

NextGate == GateCall /\ UNCHANGED <<storeVars, quizVars, mvVars, metVars, relVars, qzVars, galVars, chatVars, raceVars, quizRaceVars>>

InitMovement == StoreIdle /\ GateIdle /\ QuizInit /\ MovementInit /\ MetIdle /\ RelatedInit /\ QuizRaceInit /\ RaceInit /\ ChatInit /\ GalleryInit /\ QuizGenIdle

NextMovement == MovementCall /\ UNCHANGED <<storeVars, gateVars, quizVars, metVars, relVars, qzVars, galVars, chatVars, raceVars, quizRaceVars>>

SpecMovement == InitMovement /\ [][NextMovement]_vars

SpecGate == InitGate /\ [][NextGate]_vars

InitQuizGen ==
    /\ USE_REAL_AI \in BOOLEAN
    /\ artworks = << >>
    /\ users = [u \in Users |-> NoUser]
    /\ lastResp = NoResp
    /\ firstUpload = [h \in Hashes |-> 0]
    /\ GateIdle /\ QuizInit /\ MovementIdle /\ MetIdle /\ RelatedInit /\ QuizRaceInit /\ RaceInit /\ ChatInit /\ GalleryInit /\ QuizGenInit

NextQuizGen ==
    GenerateQuizCall
    /\ UNCHANGED <<USE_REAL_AI, artworks, users, lastResp, firstUpload>>
    /\ UNCHANGED <<gateVars, quizVars, mvVars, metVars, relVars, galVars, chatVars, raceVars, quizRaceVars>>

SpecQuizGen == InitQuizGen /\ [][NextQuizGen]_vars

InitGallery ==
    /\ StoreIdle /\ GateIdle /\ QuizInit /\ MovementIdle /\ MetIdle /\ RelatedInit /\ QuizRaceInit /\ RaceInit /\ ChatInit
    /\ QuizGenIdle /\ GalleryInit

NextGallery ==
    \/ (\E w \in Workers, u \in Users, a \in GalleryArtworks : AddToGalleryCheck(w, u, a))
        /\ UNCHANGED <<storeVars, gateVars, quizVars, mvVars, metVars, relVars, qzVars, chatVars, raceVars, quizRaceVars>>
    \/ (\E w \in Workers : AddToGalleryCommit(w))
        /\ UNCHANGED <<storeVars, gateVars, quizVars, mvVars, metVars, relVars, qzVars, chatVars, raceVars, quizRaceVars>>
    \/ (\E w \in Workers, u \in Users, id \in 1..MaxGalleryId :
            RemoveFromGalleryGet(w, u, id))
        /\ UNCHANGED <<storeVars, gateVars, quizVars, mvVars, metVars, relVars, qzVars, chatVars, raceVars, quizRaceVars>>
    \/ (\E w \in Workers : RemoveFromGalleryCommit(w))
        /\ UNCHANGED <<storeVars, gateVars, quizVars, mvVars, metVars, relVars, qzVars, chatVars, raceVars, quizRaceVars>>

SpecGallery == InitGallery /\ [][NextGallery]_vars

----------------------------------------------------------------------------
(* Claims about the gallery *)

\* C15: a user's gallery never holds two items of one artwork; an add
\* request for an artwork that is in the user's gallery when it is answered
\* is answered 409 with success false and leaves the gallery unchanged, also
\* when two add requests of the pair are in progress together (never a 500).
C15_GalleryConflict ==
    /\ \A g, h \in gallery :
          (g.user_id = h.user_id /\ g.artwork_id = h.artwork_id) => g = h
    /\ (galResp.op = "add" /\ galResp.was_in_gallery) =>
          (galResp.status = 409 /\ ~galResp.success /\ ~galResp.changed)
    /\ galResp.op = "add" => galResp.status # 500

----------------------------------------------------------------------------
(* The quiz endpoints served by two threads *)

InitQuizRace == InitQuiz

\* the user whose requests the two threads serve
QuizRaceUsers == {"u1"}

NextQuizRace ==
    \/ (\E w \in Workers, u \in QuizRaceUsers, a \in 1..(Len(artworks) + 1) :
            QuizModeLookup(w, u, a))
        /\ UNCHANGED <<gateVars, mvVars, metVars, relVars, qzVars, galVars, chatVars, raceVars>>
    \/ (\E w \in Workers, fresh \in generate_quiz(USE_REAL_AI) : QuizModeInsert(w, fresh))
        /\ UNCHANGED <<gateVars, mvVars, metVars, relVars, qzVars, galVars, chatVars, raceVars>>
    \/ (\E u \in QuizRaceUsers, quiz_id \in 1..(Len(quizAttempts) + 1), answers \in Answers :
            SubmitQuiz(u, quiz_id, answers))
        /\ UNCHANGED <<USE_REAL_AI, artworks, lastResp, firstUpload>>
        /\ UNCHANGED <<gateVars, mvVars, metVars, relVars, qzVars, galVars, chatVars, raceVars, quizRaceVars>>

SpecQuizRace == InitQuizRace /\ [][NextQuizRace]_vars

----------------------------------------------------------------------------
(* The store served by two threads *)

InitRace ==
    /\ RaceStoreInit /\ GateIdle /\ QuizInit /\ MovementIdle /\ MetIdle /\ RelatedInit /\ QuizRaceInit
    /\ QuizGenIdle /\ GalleryInit /\ ChatInit /\ RaceInit

NextRace ==
    \/ (\E w \in Workers, u \in StoreUsers, h \in Hashes \cup {None},
            res \in recognize_artwork(USE_REAL_AI) : RecognizeHashLookup(w, u, h, res))
        /\ UNCHANGED <<gateVars, quizVars, mvVars, metVars, relVars, qzVars, galVars, chatVars, quizRaceVars>>
    \/ (\E w \in Workers : RecognizeTitleLookup(w)) /\ UNCHANGED <<gateVars, quizVars, mvVars, metVars, relVars, qzVars, galVars, chatVars, quizRaceVars>>
    \/ (\E w \in Workers : RecognizeCommit(w)) /\ UNCHANGED <<gateVars, quizVars, mvVars, metVars, relVars, qzVars, galVars, chatVars, quizRaceVars>>
    \/ (\E w \in Workers, u \in StoreUsers, t \in Titles, a \in Artists :
            CreateArtworkLookup(w, u, t, a))
        /\ UNCHANGED <<gateVars, quizVars, mvVars, metVars, relVars, qzVars, galVars, chatVars, quizRaceVars>>
    \/ (\E w \in Workers : CreateArtworkInsert(w)) /\ UNCHANGED <<gateVars, quizVars, mvVars, metVars, relVars, qzVars, galVars, chatVars, quizRaceVars>>

SpecRace == InitRace /\ [][NextRace]_vars

----------------------------------------------------------------------------
(* The chat specification *)

InitChat ==
    /\ USE_REAL_AI \in BOOLEAN
    /\ artworks = << >>
    /\ users = [u \in Users |-> NoUser]
    /\ lastResp = NoResp
    /\ firstUpload = [h \in Hashes |-> 0]
    /\ GateIdle /\ QuizInit /\ MovementIdle /\ MetIdle /\ RelatedInit /\ QuizRaceInit /\ RaceInit
    /\ QuizGenIdle /\ GalleryInit /\ ChatInit

NextChat ==
    (\E u \in ChatUsers, a \in ChatArtworks \cup {MissingChatArtwork}, m \in UserMessages :
        ChatMode(u, a, m))
    /\ UNCHANGED <<storeVars, gateVars, quizVars, mvVars, metVars, relVars, qzVars, galVars, raceVars, quizRaceVars>>

SpecChat == InitChat /\ [][NextChat]_vars

----------------------------------------------------------------------------
(* Claims about the chat history *)

\* C16: after any sequence of chat requests, the history stored for each
\* (user, artwork) pair has at most 10 entries and is the most recent
\* entries of that pair's conversation in order; a chat request changes the
\* history of no other pair.
C16_HistoryBounded ==
    \A k \in ChatKeys :
        /\ Len(session[k]) <= HistoryKept
        /\ session[k] = LastN(chatLog[k], HistoryKept)

C16_PairsIsolated ==
    [][\A k \in ChatKeys :
          (chatResp'.key # k \/ chatResp'.status # 200) => session'[k] = session[k]]_vars

C16_ChatHistory == []C16_HistoryBounded /\ C16_PairsIsolated

C16_Witness ==
    /\ Len(chatLog[<<"u1", 1>>]) > HistoryKept
    /\ Len(session[<<"u1", 1>>]) = HistoryKept
    /\ chatResp.key = <<"u1", 1>>
    /\ chatResp.status = 200

\* C17 as claimed: on the AI path the prompt holds the last 6 exchanges
\* (12 messages) of the conversation, or all of them when fewer exist,
\* followed by the new user message.
C17_SixExchanges ==
    (chatResp.status = 200 /\ chatPrompt # NoPrompt) =>
        SubSeq(chatPrompt, 2, Len(chatPrompt) - 1) = LastN(chatResp.before, 2 * PromptContext)

\* C17 as amended: on the AI path the prompt is the system message, the
\* last 6 messages (3 exchanges) of the conversation, or all of them when
\* fewer than 6 exist, and then the new user message.
C17_SixMessages ==
    (chatResp.status = 200 /\ chatPrompt # NoPrompt) =>
        /\ chatPrompt[1].role = "system"
        /\ SubSeq(chatPrompt, 2, Len(chatPrompt) - 1) = LastN(chatResp.before, PromptContext)
        /\ chatPrompt[Len(chatPrompt)] = chatLog[chatResp.key][Len(chatLog[chatResp.key]) - 1]

C17_Witness ==
    /\ chatResp.status = 200
    /\ chatPrompt # NoPrompt
    /\ Len(chatResp.before) > PromptContext
    /\ Len(chatPrompt) = PromptContext + 2

----------------------------------------------------------------------------
(* Claims about generate_quiz *)

WellFormed(q) ==
    /\ q.is_object
    /\ q.question # Absent
    /\ q.options = 4
    /\ q.correct_answer # Missing
    /\ q.explanation # Absent

IsQuiz(value) ==
    /\ value.type = "list"
    /\ \A i \in DOMAIN value.items : WellFormed(value.items[i])

\* C13: generate_quiz returns a list of questions that each have a text,
\* exactly four options, a correct-option index and an explanation; when the
\* model's output is not such a list the shuffled template is returned.
C13_QuizShape ==
    qzPc = "done" =>
        /\ IsQuiz(qzOut)
        /\ ~(qzIn.kind = "list" /\ IsQuiz([type |-> "list", items |-> qzIn.items]))
              => \E order \in Shuffles : qzOut = TemplateQuiz(order)

----------------------------------------------------------------------------
(* Claims about the quiz endpoints *)

PairAttempts(u, a) ==
    {i \in DOMAIN quizAttempts :
        quizAttempts[i].user_id = u /\ quizAttempts[i].artwork_id = a}

FirstAttempt(u, a) == CHOOSE i \in PairAttempts(u, a) : \A j \in PairAttempts(u, a) : i <= j

\* C4: a quiz_mode request for a (user, artwork) pair that already has an
\* attempt returns the question list of the pair's first attempt without a
\* call of generate_quiz, and all rows of a pair hold the same questions.
C4_SameQuestions ==
    [][ \A u \in Users, a \in DOMAIN artworks :
          /\ (quizResp'.op = "quiz_mode" /\ quizResp'.user = u
                /\ quizResp'.artwork_id = a /\ PairAttempts(u, a) # {})
             => /\ quizResp'.status = 200
                /\ quizResp'.questions = json_loads(quizAttempts[FirstAttempt(u, a)].questions)
                /\ ~quizResp'.generated
          /\ \A i, j \in DOMAIN quizAttempts' :
                (quizAttempts'[i].user_id = u /\ quizAttempts'[i].artwork_id = a
                    /\ quizAttempts'[j].user_id = u /\ quizAttempts'[j].artwork_id = a)
                => quizAttempts'[i].questions = quizAttempts'[j].questions ]_vars

\* a retake: the response of quiz_mode names the second attempt of its pair
C4_Witness ==
    /\ quizResp.op = "quiz_mode"
    /\ quizResp.status = 200
    /\ ~quizResp.generated
    /\ quizResp.quiz_id > FirstAttempt(quizResp.user, quizResp.artwork_id)
    /\ Len(quizResp.questions) > 0

InitMet == StoreIdle /\ GateIdle /\ QuizInit /\ MovementIdle /\ MetInit /\ RelatedInit /\ QuizRaceInit /\ RaceInit /\ ChatInit /\ GalleryInit /\ QuizGenIdle

NextMet ==
    \/ SearchMetArtwork /\ UNCHANGED <<storeVars, gateVars, quizVars, mvVars, relVars, qzVars, galVars, chatVars, raceVars, quizRaceVars>>
    \/ FindRelatedByArtist /\ UNCHANGED <<storeVars, gateVars, quizVars, mvVars, relVars, qzVars, galVars, chatVars, raceVars, quizRaceVars>>
    \/ FindRelatedByStyle /\ UNCHANGED <<storeVars, gateVars, quizVars, mvVars, relVars, qzVars, galVars, chatVars, raceVars, quizRaceVars>>

SpecMet == InitMet /\ [][NextMet]_vars

InitRelated ==
    /\ USE_REAL_AI \in BOOLEAN
    /\ artworks = << >>
    /\ users = [u \in Users |-> NoUser]
    /\ lastResp = NoResp
    /\ firstUpload = [h \in Hashes |-> 0]
    /\ GateIdle /\ QuizInit /\ MovementIdle /\ MetIdle /\ RelatedInit /\ QuizRaceInit /\ RaceInit /\ ChatInit /\ GalleryInit /\ QuizGenIdle

NextRelated ==
    \/ (\E a \in RequestedArtworks \cup {MissingArtwork}, u \in RelatedUsers :
            RelatedRequest(a, u))
        /\ UNCHANGED <<storeVars, gateVars, quizVars, mvVars, metVars, qzVars, galVars, chatVars, raceVars, quizRaceVars>>
    \/ ArtistStep /\ UNCHANGED <<storeVars, gateVars, quizVars, mvVars, metVars, qzVars, galVars, chatVars, raceVars, quizRaceVars>>
    \/ StyleStep /\ UNCHANGED <<storeVars, gateVars, quizVars, mvVars, metVars, qzVars, galVars, chatVars, raceVars, quizRaceVars>>
    \/ AIStep /\ UNCHANGED <<storeVars, gateVars, quizVars, mvVars, metVars, qzVars, galVars, chatVars, raceVars, quizRaceVars>>
    \/ EnrichStep /\ UNCHANGED <<storeVars, gateVars, quizVars, mvVars, metVars, qzVars, galVars, chatVars, raceVars, quizRaceVars>>
    \/ ExplainStep /\ UNCHANGED <<storeVars, gateVars, quizVars, mvVars, metVars, qzVars, galVars, chatVars, raceVars, quizRaceVars>>
    \/ ContextStep /\ UNCHANGED <<storeVars, gateVars, quizVars, mvVars, metVars, qzVars, galVars, chatVars, raceVars, quizRaceVars>>
    \/ (\E k \in BundleKeys : CacheExpire(k))
        /\ UNCHANGED <<storeVars, gateVars, quizVars, mvVars, metVars, qzVars, galVars, chatVars, raceVars, quizRaceVars>>

SpecRelated == InitRelated /\ [][NextRelated]_vars

\* Two artworks of one movement, with AI credentials
InitRelatedShared ==
    /\ USE_REAL_AI = TRUE
    /\ artworks = << >>
    /\ users = [u \in Users |-> NoUser]
    /\ lastResp = NoResp
    /\ firstUpload = [h \in Hashes |-> 0]
    /\ GateIdle /\ QuizInit /\ MovementIdle /\ MetIdle /\ RelatedInit /\ QuizRaceInit /\ RaceInit /\ ChatInit /\ GalleryInit /\ QuizGenIdle

NextRelatedShared ==
    \/ (\E a \in SameMovementArtworks, u \in RelatedUsers : RelatedRequest(a, u))
        /\ UNCHANGED <<storeVars, gateVars, quizVars, mvVars, metVars, qzVars, galVars, chatVars, raceVars, quizRaceVars>>
    \/ ArtistStep /\ UNCHANGED <<storeVars, gateVars, quizVars, mvVars, metVars, qzVars, galVars, chatVars, raceVars, quizRaceVars>>
    \/ StyleStep /\ UNCHANGED <<storeVars, gateVars, quizVars, mvVars, metVars, qzVars, galVars, chatVars, raceVars, quizRaceVars>>
    \/ AIStep /\ UNCHANGED <<storeVars, gateVars, quizVars, mvVars, metVars, qzVars, galVars, chatVars, raceVars, quizRaceVars>>
    \/ EnrichStep /\ UNCHANGED <<storeVars, gateVars, quizVars, mvVars, metVars, qzVars, galVars, chatVars, raceVars, quizRaceVars>>
    \/ ExplainStep /\ UNCHANGED <<storeVars, gateVars, quizVars, mvVars, metVars, qzVars, galVars, chatVars, raceVars, quizRaceVars>>
    \/ ContextStep /\ UNCHANGED <<storeVars, gateVars, quizVars, mvVars, metVars, qzVars, galVars, chatVars, raceVars, quizRaceVars>>
    \/ (\E k \in BundleKeys : CacheExpire(k))
        /\ UNCHANGED <<storeVars, gateVars, quizVars, mvVars, metVars, qzVars, galVars, chatVars, raceVars, quizRaceVars>>

SpecRelatedShared == InitRelatedShared /\ [][NextRelatedShared]_vars

\* Two users on the mock path
InitRelatedCache ==
    /\ USE_REAL_AI = FALSE
    /\ artworks = << >>
    /\ users = [u \in Users |-> NoUser]
    /\ lastResp = NoResp
    /\ firstUpload = [h \in Hashes |-> 0]
    /\ GateIdle /\ QuizInit /\ MovementIdle /\ MetIdle /\ RelatedInit /\ QuizRaceInit /\ RaceInit /\ ChatInit /\ GalleryInit /\ QuizGenIdle

NextRelatedCache ==
    \/ (\E a \in RequestedArtworks \cup {MissingArtwork}, u \in CacheUsers :
            RelatedRequest(a, u))
        /\ UNCHANGED <<storeVars, gateVars, quizVars, mvVars, metVars, qzVars, galVars, chatVars, raceVars, quizRaceVars>>
    \/ ArtistStep /\ UNCHANGED <<storeVars, gateVars, quizVars, mvVars, metVars, qzVars, galVars, chatVars, raceVars, quizRaceVars>>
    \/ StyleStep /\ UNCHANGED <<storeVars, gateVars, quizVars, mvVars, metVars, qzVars, galVars, chatVars, raceVars, quizRaceVars>>
    \/ AIStep /\ UNCHANGED <<storeVars, gateVars, quizVars, mvVars, metVars, qzVars, galVars, chatVars, raceVars, quizRaceVars>>
    \/ EnrichStep /\ UNCHANGED <<storeVars, gateVars, quizVars, mvVars, metVars, qzVars, galVars, chatVars, raceVars, quizRaceVars>>
    \/ ExplainStep /\ UNCHANGED <<storeVars, gateVars, quizVars, mvVars, metVars, qzVars, galVars, chatVars, raceVars, quizRaceVars>>
    \/ ContextStep /\ UNCHANGED <<storeVars, gateVars, quizVars, mvVars, metVars, qzVars, galVars, chatVars, raceVars, quizRaceVars>>
    \/ (\E k \in BundleKeys : CacheExpire(k))
        /\ UNCHANGED <<storeVars, gateVars, quizVars, mvVars, metVars, qzVars, galVars, chatVars, raceVars, quizRaceVars>>

SpecRelatedCache == InitRelatedCache /\ [][NextRelatedCache]_vars

----------------------------------------------------------------------------
(* Claims about the related-content assembler *)

SourceRank(e) ==
    CASE e.source = "artist" -> 1
      [] e.source = "style" -> 2
      [] OTHER -> 3

ArtistFirst(similar_artworks) ==
    \A i, j \in DOMAIN similar_artworks :
        i < j => SourceRank(similar_artworks[i]) <= SourceRank(similar_artworks[j])

\* C8: get_related_content answers with at most 3 similar_artworks, the
\* entries of the artist search first, then those of the style search, then
\* the AI suggestions; the style search is called only when the artist search
\* found fewer than 3 and the AI suggestions are asked for only when the two
\* searches found fewer than 3.
C8_QuotaAndPriority ==
    /\ relResp.status = 200 =>
          /\ Len(relResp.similar_artworks) <= RelatedQuota
          /\ ArtistFirst(relResp.similar_artworks)
    /\ Len(rel.related_artworks) <= RelatedQuota
    /\ ArtistFirst(rel.related_artworks)
    /\ rel.ranStyle => rel.nArtist < RelatedQuota
    /\ rel.ranAI => rel.nArtist + rel.nStyle < RelatedQuota

\* a computed answer that holds one entry of each step
C8_Witness ==
    /\ relResp.status = 200
    /\ ~relResp.cached
    /\ Len(relResp.similar_artworks) = 3
    /\ relResp.similar_artworks[1].source = "artist"
    /\ relResp.similar_artworks[2].source = "style"
    /\ relResp.similar_artworks[3].source = "ai"

----------------------------------------------------------------------------
(* Claims about the museum cross-reference *)

\* C9: every entry the three functions return has a non-empty image_url that
\* is the primaryImage of an object the API answered with; an object without
\* primaryImage is never returned.
C9_EntriesHaveImage ==
    metPc = "done" =>
        \A k \in DOMAIN metOut :
            /\ metOut[k].image_url # ""
            /\ \E i \in DOMAIN metIn.search.objects :
                  LET o == metIn.search.objects[i]
                  IN /\ o.fetch_ok
                     /\ o.primaryImage # ""
                     /\ o.primaryImage = metOut[k].image_url
                     /\ o.title = metOut[k].title
                     /\ o.artistDisplayName = metOut[k].artist

\* the first object listed is the searched work itself without an image,
\* and a later object is returned
C9_Witness ==
    /\ metPc = "done"
    /\ metOut # << >>
    /\ Len(metIn.search.objects) > 1
    /\ metIn.search.objects[1] = MetObject(TRUE, "", SearchedTitle, SearchedArtist)

Fetched(o) == o.fetch_ok

\* the search answer without the objects whose detail request failed
WithoutFailures(search) ==
    [search EXCEPT !.objects = SelectSeq(search.objects, Fetched)]

\* C14: find_related_artworks_by_artist and find_related_artworks_by_style
\* return a list for every answer of the API: the empty list when the search
\* request fails, and otherwise what they return when the objects whose detail
\* request failed are left out of the answer (a failed object is skipped, the
\* candidates after it are still processed).
C14_FailuresDegrade ==
    (metPc = "done" /\ metIn.fn # "search_met_artwork") =>
        /\ ~metIn.search.ok => metOut = << >>
        /\ metIn.fn = "find_related_artworks_by_artist" =>
              metOut = find_related_artworks_by_artist(
                           WithoutFailures(metIn.search), SearchedTitle, metIn.limit)
        /\ metIn.fn = "find_related_artworks_by_style" =>
              metOut = find_related_artworks_by_style(
                           WithoutFailures(metIn.search), metIn.limit)

\* the detail request of the first object failed and an object after it is
\* returned by the style search
C14_Witness ==
    /\ metPc = "done"
    /\ metIn.fn = "find_related_artworks_by_style"
    /\ Len(metIn.search.objects) > 1
    /\ ~metIn.search.objects[1].fetch_ok
    /\ metOut # << >>

\* the candidates search_met_artwork scores and may return: among the first ten
\* of the search, those whose details arrived, with an image and a score of
\* at least MinScore
Eligible(search) ==
    { i \in 1..Len(Prefix(search.objects, SearchCandidates)) :
        /\ search.objects[i].fetch_ok
        /\ search.objects[i].primaryImage # ""
        /\ MatchScore(search.objects[i], SearchedTitle, SearchedArtist) >= MinScore }

\* C18: search_met_artwork returns a candidate only if it has an image and a
\* match score of at least 8; what it returns is the candidate of the highest
\* score among those, and of several with that score the first in the order
\* of the search result.
C18_BestCandidate ==
    (metPc = "done" /\ metIn.fn = "search_met_artwork") =>
        LET search == metIn.search
            score(i) == MatchScore(search.objects[i], SearchedTitle, SearchedArtist)
        IN  /\ Eligible(search) = {} => metOut = << >>
            /\ Eligible(search) # {} =>
                  \E i \in Eligible(search) :
                     /\ metOut = <<Entry(search.objects[i], "", "met")>>
                     /\ \A j \in Eligible(search) : score(j) <= score(i)
                     /\ \A j \in Eligible(search) : score(j) = score(i) => i <= j

\* two candidates of different titles share the highest score and the first
\* of them is returned
C18_Witness ==
    /\ metPc = "done"
    /\ metIn.fn = "search_met_artwork"
    /\ \E i, j \in Eligible(metIn.search) :
          /\ i < j
          /\ metIn.search.objects[i].title # metIn.search.objects[j].title
          /\ MatchScore(metIn.search.objects[i], SearchedTitle, SearchedArtist)
                = MatchScore(metIn.search.objects[j], SearchedTitle, SearchedArtist)
          /\ \A k \in Eligible(metIn.search) :
                MatchScore(metIn.search.objects[k], SearchedTitle, SearchedArtist)
                  <= MatchScore(metIn.search.objects[i], SearchedTitle, SearchedArtist)
          /\ metOut = <<Entry(metIn.search.objects[i], "", "met")>>
          /\ \E k \in 1..Len(metIn.search.objects) : ~HasImage(metIn.search.objects[k])

----------------------------------------------------------------------------
(* Claims about the store served by two threads *)

OneArtworkPerContent ==
    \A i, j \in DOMAIN artworks :
        (i # j) =>
            /\ ~(artworks[i].image_hash # None /\ artworks[i].image_hash = artworks[j].image_hash)
            /\ ~(artworks[i].title = artworks[j].title /\ artworks[i].artist = artworks[j].artist)

ConfidenceKept ==
    \A i \in DOMAIN artworks : artworks'[i].confidence >= artworks[i].confidence

\* C23: with the lookups and inserts of two recognize or create_artwork
\* requests interleaved, the store still holds at most one artwork per content
\* hash and per (title, artist) pair, and the stored confidence of an artwork
\* never decreases.
C23_RaceKeepsStoreInvariants ==
    []OneArtworkPerContent /\ [][ConfidenceKept]_vars

\* the confidence half of C23 on its own
C23_RaceConfidence == [][ConfidenceKept]_vars

----------------------------------------------------------------------------
(* Claims about the entries of a related-content response *)

\* C21: every entry of similar_artworks in a response of get_related_content
\* carries a non-empty similarity explanation, whatever the outcome of the
\* explanation call (matched, unmatched, failed, unparsable, no model).
C21_EveryEntryExplained ==
    relResp.status = 200 =>
        \A i \in DOMAIN relResp.similar_artworks :
            /\ relResp.similar_artworks[i].similarity # Absent
            /\ relResp.similar_artworks[i].similarity # ""

IsAISuggestion(entry) == entry.source = "ai"

\* the image the lookup order gives a suggestion: the row of its title in the
\* Artwork table when it has an image, else what the museum search found,
\* else the placeholder
LookupImage(s) ==
    LET db == First({i \in DOMAIN RelatedArtworks : RelatedArtworks[i].title = s.title})
        memo == searchMemo[<<s.title, s.artist>>]
    IN IF db # 0 /\ RelatedArtworks[db].image_url # "" THEN RelatedArtworks[db].image_url
       ELSE IF memo.set /\ memo.value # << >> THEN memo.value[1].image_url
       ELSE PlaceholderImage

\* the first three suggestions whose lookup does not end at the placeholder
KeptSuggestions(a) ==
    LET ai_suggestions == Prefix(aiContentCache[a].similar_artworks, RelatedQuota)
    IN { i \in DOMAIN ai_suggestions : LookupImage(ai_suggestions[i]) # PlaceholderImage }

\* C22: every entry of similar_artworks in a response has an image URL that
\* is not the placeholder; the image of a model suggestion is that of the
\* lookup order database, museum, placeholder; a suggestion whose lookup
\* ends at the placeholder is left out and takes no place among the three.
C22_NoPlaceholderEntries ==
    relResp.status = 200 =>
        LET entries == relResp.similar_artworks
            ai == SelectSeq(entries, IsAISuggestion)
            kept == KeptSuggestions(relResp.artwork_id)
            free == RelatedQuota - (Len(entries) - Len(ai))
        IN  /\ \A i \in DOMAIN entries :
                  entries[i].image_url \notin {Absent, "", PlaceholderImage}
            /\ \A i \in DOMAIN ai : ai[i].image_url = LookupImage(ai[i])
            /\ Len(ai) = IF Cardinality(kept) < free THEN Cardinality(kept) ELSE free
            /\ \A i \in DOMAIN ai :
                  \E k \in kept :
                     /\ Cardinality({j \in kept : j <= k}) = i
                     /\ aiContentCache[relResp.artwork_id].similar_artworks[k].title = ai[i].title

\* the first suggestion ended at the placeholder and two later ones are in
\* the response
C22_Witness ==
    /\ relResp.status = 200
    /\ ~relResp.cached
    /\ aiContentCache[relResp.artwork_id].set
    /\ Len(aiContentCache[relResp.artwork_id].similar_artworks) >= 3
    /\ 1 \notin KeptSuggestions(relResp.artwork_id)
    /\ Len(SelectSeq(relResp.similar_artworks, IsAISuggestion)) = 2
    /\ relResp.similar_artworks[Len(relResp.similar_artworks)].image_url = MetImage

----------------------------------------------------------------------------
(* Claims about the related-content cache *)

ResponseKey(resp) == <<resp.artwork_id, resp.user>>

\* a request answered while the pair's entry is live is answered with that
\* entry, and starts no computation and fills no memo
HitServedFromCache ==
    \A k \in BundleKeys :
        (rel.pc = "idle" /\ relCache[k].set /\ relResp' # relResp /\ ResponseKey(relResp') = k) =>
            /\ relResp'.status = 200
            /\ relResp'.cached
            /\ relResp'.similar_artworks = relCache[k].similar_artworks
            /\ relResp'.historical_context = relCache[k].historical_context
            /\ UNCHANGED <<rel, relCache, artistMemo, styleMemo, searchMemo, aiContentCache>>

\* a computation starts only for a pair without a live entry, and only such
\* a pair is not answered from the cache
MissRecomputes ==
    /\ (rel.pc = "idle" /\ rel'.pc # "idle") => ~relCache[<<rel'.artwork_id, rel'.user>>].set
    /\ (rel.pc = "idle" /\ relResp' # relResp /\ relResp'.cached) =>
            relCache[ResponseKey(relResp')].set

\* the entry of a pair is what the pair's own computation returned, and stays
\* that until it expires
EntryIsOwnResult ==
    \A k \in BundleKeys :
        /\ (relCache[k].set /\ relCache'[k].set) => relCache'[k] = relCache[k]
        /\ (~relCache[k].set /\ relCache'[k].set) =>
              /\ ResponseKey(relResp') = k
              /\ ~relResp'.cached
              /\ relCache'[k].similar_artworks = relResp'.similar_artworks
              /\ relCache'[k].historical_context = relResp'.historical_context

\* C19: once get_related_content has computed the result of an (artwork,
\* user) pair, a request of the pair before the entry expires is answered
\* with that result and makes no museum or model call; after the expiry the
\* result is computed again; no request is answered with the entry of
\* another user or another artwork.
C19_CachedUntilExpiry ==
    [][HitServedFromCache /\ MissRecomputes /\ EntryIsOwnResult]_vars

\* the second user is answered from the cache with their own entry for the
\* artwork while the first user's entry for it and their own, different entry
\* for another artwork are live
C19_Witness ==
    /\ relResp.cached
    /\ ResponseKey(relResp) = <<1, "u2">>
    /\ relCache[<<1, "u1">>].set
    /\ relCache[<<2, "u2">>].set
    /\ relCache[<<1, "u2">>].set
    /\ relResp.similar_artworks = relCache[<<1, "u2">>].similar_artworks
    /\ relCache[<<2, "u2">>] # relCache[<<1, "u2">>]
    /\ relResp.similar_artworks # << >>

----------------------------------------------------------------------------
(* Claims about infer_art_movement *)

NoCultureNoKeywordTag(artwork_data) ==
    /\ artwork_data.culture = ""
    /\ ~artwork_data.tags_null
    /\ \A i \in DOMAIN artwork_data.tags :
          \A k \in DOMAIN movements : ~Contains(Lower(artwork_data.tags[i]), movements[k])

\* C10: a record with no culture and no movement-keyword tag, year 1870 and
\* artist "Claude Monet" is labelled "Impressionism".
C10_Monet1870 ==
    (mvPc = "done" /\ NoCultureNoKeywordTag(mvIn.artwork_data)
        /\ mvIn.year_str = <<Num(1870)>> /\ mvIn.artist_name = <<"Claude", "Monet">>)
    => mvOut = "Impressionism"

\* C11: a record with no culture and no movement-keyword tag is labelled
\* "Medieval" when its year is 1300 (a year below 1400) and "21st Century"
\* when its year is 2010.
C11_MedievalAnd21stCentury ==
    (mvPc = "done" /\ NoCultureNoKeywordTag(mvIn.artwork_data)) =>
        /\ mvIn.year_str = <<Num(1300)>> => mvOut = "Medieval"
        /\ mvIn.year_str = <<Num(2010)>> => mvOut = "21st Century"

\* the years a named artist was at work: Monet from the 1860s to 1926,
\* van Gogh from 1881 to 1890
ActivePeriod(artist_name) ==
    IF Contains(Lower(artist_name), <<"monet">>) THEN 1860..1926
    ELSE IF Contains(Lower(artist_name), <<"van", "gogh">>) THEN 1881..1890
    ELSE {}

OverrideLabel(artist_name) ==
    IF Contains(Lower(artist_name), <<"monet">>) THEN "Impressionism"
    ELSE "Post-Impressionism"

KeywordLabels(tags) ==
    { TitleCase(movements[k]) :
        k \in { l \in DOMAIN movements :
                  \E i \in DOMAIN tags : Contains(Lower(tags[i]), movements[l]) } }

\* C20: infer_art_movement follows a strict priority chain: a culture that is
\* non-empty and not American, European, French or Italian is returned
\* whatever the tags and the year; otherwise a movement keyword found in a tag
\* gives that movement whatever the year; only otherwise the year decides,
\* and then a work of a named Impressionist or Post-Impressionist dated in any
\* year of the artist's active period gets the artist's movement.
C20_PriorityChain ==
    mvPc = "done" =>
        LET d == mvIn.artwork_data
            hasCulture == d.culture # "" /\ d.culture \notin WesternCultures
            year == ExtractYear(mvIn.year_str)
        IN  /\ hasCulture => mvOut = d.culture
            /\ (~hasCulture /\ KeywordLabels(d.tags) # {}) => mvOut \in KeywordLabels(d.tags)
            /\ (~hasCulture /\ KeywordLabels(d.tags) = {} /\ year \in ActivePeriod(mvIn.artist_name))
                  => mvOut = OverrideLabel(mvIn.artist_name)

----------------------------------------------------------------------------
(* Claims about the recognition gate *)

\* the parsed object lacks title, lacks artist, or reports a confidence below
\* 0.7 (a missing confidence counts as 0)
LacksFieldOrLowConfidence(d) ==
    \/ d.title = Absent
    \/ d.artist = Absent
    \/ (d.conf_type \in {"number", Absent} /\ GetConfidence(d) < ConfidenceThreshold)

\* C1: for every parsed response that lacks title, lacks artist or reports a
\* confidence below 0.7, the gate returns a dictionary whose success field is
\* false, whatever the other fields are (a missing success field included).
C1_GateRejects ==
    (gatePc = "done" /\ gateIn.kind = "dict" /\ LacksFieldOrLowConfidence(gateIn.dict))
        => gateOut.success = "false"

\* C12: for every outcome of the model call the gate returns a dictionary,
\* and when the outcome holds no JSON object (the call raised, the text holds
\* no JSON, the JSON does not parse, the JSON is not an object) the dictionary
\* has success false, a message and a non-empty list of suggestions.
C12_FailureWithSuggestions ==
    (gatePc = "done" /\ gateIn.kind # "dict") =>
        /\ gateOut.success = "false"
        /\ gateOut.message # Absent
        /\ gateOut.suggestions = "nonempty"

----------------------------------------------------------------------------
(* Claims about the Artwork store *)

RecognizeStep == lastResp'.op = "recognize"

\* C2: an upload whose hash equals the image_hash of a stored artwork is
\* answered with that artwork and cached: true, without a call of
\* recognize_artwork and without a change of the store or of the user's counters.
C2_CacheHit ==
    [][ \A i \in DOMAIN artworks :
          (RecognizeStep /\ artworks[i].image_hash # None
                         /\ artworks[i].image_hash = lastResp'.image_hash)
          => /\ lastResp'.status = 200
             /\ lastResp'.cached
             /\ lastResp'.artwork_id = artworks[i].id
             /\ lastResp'.title = artworks[i].title
             /\ lastResp'.artist = artworks[i].artist
             /\ ~lastResp'.ai_called
             /\ artworks' = artworks
             /\ users' = users ]_vars

C2_Witness ==
    /\ lastResp.op = "recognize"
    /\ lastResp.cached
    /\ users[lastResp.user].artworks_discovered > 0

\* C3: once an upload of a file was recognized, every later upload of the same
\* file returns cached: true and the artwork id of the first upload.
C3_SecondUploadCached ==
    [][ \A h \in Hashes :
          (RecognizeStep /\ lastResp'.image_hash = h /\ firstUpload[h] # 0)
          => (lastResp'.cached /\ lastResp'.artwork_id = firstUpload[h]) ]_vars

\* C5: no two stored artworks share a non-null image_hash, and no two share
\* the (title, artist) pair.
C5_Unique ==
    \A i, j \in DOMAIN artworks :
        i # j =>
            /\ (artworks[i].image_hash # None
                    => artworks[i].image_hash # artworks[j].image_hash)
            /\ ~(artworks[i].title = artworks[j].title
                 /\ artworks[i].artist = artworks[j].artist)

\* two artworks of one title by different artists, and two artworks with a hash
C5_Witness ==
    /\ \E i, j \in DOMAIN artworks :
            i # j /\ artworks[i].title = artworks[j].title
    /\ \E i, j \in DOMAIN artworks :
            i # j /\ artworks[i].image_hash # None /\ artworks[j].image_hash # None

\* C6: the confidence of a stored artwork never decreases, and no artwork
\* leaves the store.
C6_ConfidenceMonotone ==
    [][ \A i \in DOMAIN artworks :
          /\ i \in DOMAIN artworks'
          /\ artworks'[i].confidence >= artworks[i].confidence ]_vars

\* a recognition of an existing artwork reported less than the stored value
C6_Witness ==
    /\ lastResp.op = "recognize"
    /\ lastResp.status = 200
    /\ ~lastResp.cached
    /\ GetConfidence(lastResp.result) < lastResp.confidence

\* the recognize endpoint created or updated an artwork
RecognizeWrote ==
    lastResp.op = "recognize" /\ lastResp.status = 200 /\ ~lastResp.cached

PassedGate(r) ==
    /\ r.success = "true"
    /\ r.title # Absent
    /\ r.artist # Absent
    /\ r.conf_type = "number"
    /\ r.confidence >= ConfidenceThreshold

\* C7 as claimed: in every configuration, the result behind a created or
\* updated artwork passed the gate's validation.
C7_OnlyValidated == RecognizeWrote => PassedGate(lastResp.result)

\* C7 as amended: the result has success true, a title and an artist; with AI
\* credentials it passed the gate's validation (confidence at least 0.7),
\* without them it is mock data that carries no confidence.
C7_ValidatedWithCredentials ==
    RecognizeWrote =>
        /\ lastResp.result.success = "true"
        /\ lastResp.result.title # Absent
        /\ lastResp.result.artist # Absent
        /\ USE_REAL_AI => PassedGate(lastResp.result)
        /\ ~USE_REAL_AI => lastResp.result.conf_type = Absent

C7_Witness ==
    /\ RecognizeWrote
    /\ USE_REAL_AI
    /\ Len(artworks) > 1

----------------------------------------------------------------------------
(* Claims about submit_quiz                                                    *)

\* a submit_quiz step that names an attempt already completed before the step
ResubmitStep ==
    /\ quizResp'.op = "submit_quiz"
    /\ quizResp' # quizResp \/ users' # users
    /\ quizResp'.quiz_id \in DOMAIN quizAttempts
    /\ quizAttempts[quizResp'.quiz_id].completed
    /\ quizAttempts[quizResp'.quiz_id].user_id = quizResp'.user

\* a submission of the attempt's owner never ends in a server error and its
\* score is a percentage
SubmitAnswered ==
    quizResp.op = "submit_quiz" =>
        /\ quizResp.status # 500
        /\ quizResp.score \in 0..100

\* C25: an attempt awards XP and counts as a completed quiz at most once (a
\* submission to an attempt that is already completed leaves the user's xp and
\* quizzes_completed as they were), and submit_quiz answers every stored
\* question list, the empty one included, with a score in 0..100 and no
\* server error.
C25_AwardedOnce ==
    /\ [][ResubmitStep => users' = users]_vars
    /\ []SubmitAnswered

\* the first half of C25 alone
C25_NoSecondAward == [][ResubmitStep => users' = users]_vars

\* the second half of C25 alone
C25_NoServerError == []SubmitAnswered

----------------------------------------------------------------------------
(* Claims about concurrent quiz_mode requests                                  *)

\* the responses the two threads hold for one pair carry the same questions
ResponsesAgree ==
    \A w1, w2 \in Workers :
        (/\ quizReq[w1].pc = "done" /\ quizReq[w1].status = 200
         /\ quizReq[w2].pc = "done" /\ quizReq[w2].status = 200
         /\ quizReq[w1].user = quizReq[w2].user
         /\ quizReq[w1].artwork_id = quizReq[w2].artwork_id)
        => quizReq[w1].questions = quizReq[w2].questions

\* the attempts of one pair hold the same questions
RowsAgree ==
    \A i, j \in DOMAIN quizAttempts :
        (/\ quizAttempts[i].user_id = quizAttempts[j].user_id
         /\ quizAttempts[i].artwork_id = quizAttempts[j].artwork_id)
        => quizAttempts[i].questions = quizAttempts[j].questions

\* C24: when two quiz_mode requests of one user for one artwork run
\* concurrently and neither finds an attempt, the questions of the pair are
\* still generated once: both responses, and every later quiz_mode response
\* of the pair, return the same question set.
C24_GeneratedOncePerPair == ResponsesAgree /\ RowsAgree

----------------------------------------------------------------------------
(* Claims about whose explanation an entry carries                             *)

\* C26: the similarity explanation of an entry in a get_related_content
\* response for an artwork was produced for that artwork: an explanation
\* written during a request for a different artwork never appears in it,
\* although the memoized searches hand the same entries to later requests.
C26_ExplanationOfThisArtwork ==
    relResp.status = 200 =>
        \A i \in DOMAIN relResp.similar_artworks :
            \A b \in DOMAIN RelatedArtworks :
                b # relResp.artwork_id
                => relResp.similar_artworks[i].similarity # ExplanationFor(b)

----------------------------------------------------------------------------
(* Claims about what the process-lifetime caches keep                          *)

\* a step in which a museum search of the request failed and its empty
\* result was put into the memo of the memoized function
FailedSearchMemoized ==
    /\ rel'.searchFailed
    /\ \/ rel.pc = "artist" /\ artistMemo' # artistMemo
       \/ rel.pc = "style" /\ styleMemo' # styleMemo

\* with credentials, mock_data is what a failed call falls back to
FallbackBundleKept ==
    /\ USE_REAL_AI
    /\ \E a \in DOMAIN aiContentCache :
          /\ aiContentCache[a].set
          /\ aiContentCache[a].historical_context = mock_data.historical_context

\* C27: a degraded result of a failed external call (the empty list of a
\* failed museum search, the static fallback bundle of a failed AI call in
\* get_related_artworks_and_context) is not kept by a process-lifetime cache,
\* so that a later call with the same arguments queries the service again.
C27_DegradedNotKept ==
    /\ [][~FailedSearchMemoized]_vars
    /\ [](~FallbackBundleKept)

\* the museum half of C27 alone
C27_FailedSearchNotKept == [][~FailedSearchMemoized]_vars

\* the AI half of C27 alone
C27_FallbackNotKept == [](~FallbackBundleKept)

----------------------------------------------------------------------------
(* Claims about the artwork a recognition answers with                         *)

\* C28: for every successful, non-cached recognition the artwork in the
\* response of recognize has the title and the artist of the recognition
\* result, also when the store already holds an artwork of that title by a
\* different artist.
C28_ReturnsRecognizedArtwork ==
    RecognizeWrote =>
        /\ lastResp.title = lastResp.result.title
        /\ lastResp.artist = lastResp.result.artist

\* the title half of C28 alone
C28_ReturnsRecognizedTitle == RecognizeWrote => lastResp.title = lastResp.result.title

----------------------------------------------------------------------------
(* Claims about the tag matching of infer_art_movement                         *)

\* the longest keyword of the list that the tag contains, 0 when none
MostSpecificKeyword(tag_name) ==
    LET hits == {k \in DOMAIN movements : Contains(tag_name, movements[k])}
    IN IF hits = {} THEN 0
       ELSE CHOOSE k \in hits : \A l \in hits : Len(movements[l]) <= Len(movements[k])

\* the call reached the tag loop and a tag of the record names a movement
DecidedByTag ==
    /\ mvPc = "done"
    /\ ~(mvIn.artwork_data.culture # "" /\ mvIn.artwork_data.culture \notin WesternCultures)
    /\ ~mvIn.artwork_data.tags_null
    /\ \E i \in DOMAIN mvIn.artwork_data.tags :
            TagKeyword(Lower(mvIn.artwork_data.tags[i])) # 0

FirstMovementTag ==
    LET tags == mvIn.artwork_data.tags
        hits == {i \in DOMAIN tags : TagKeyword(Lower(tags[i])) # 0}
    IN tags[CHOOSE i \in hits : \A j \in hits : i <= j]

\* C29: in the tag matching of infer_art_movement the movement returned for a
\* tag is the most specific keyword the tag contains, not a shorter keyword
\* that is a part of it: a record whose only movement tag is
\* "Post-Impressionism" (and whose culture does not short-circuit) is labelled
\* "Post-Impressionism".
C29_MostSpecificKeyword ==
    DecidedByTag =>
        mvOut = TitleCase(movements[MostSpecificKeyword(Lower(FirstMovementTag))])

\* the example of C29 alone
C29_PostImpressionismTag ==
    (DecidedByTag /\ mvIn.artwork_data.tags = << <<"Post-", "Impressionism">> >>)
        => mvOut = "Post-Impressionism"

----------------------------------------------------------------------------
(* Claims about the title of the object search_met_artwork returns             *)

\* equal, or one contains the other, without regard to case
TitlesRelated(obj_title, search_title) ==
    \/ Lower(obj_title) = Lower(search_title)
    \/ Contains(Lower(obj_title), Lower(search_title))
    \/ Contains(Lower(search_title), Lower(obj_title))

\* C30: search_met_artwork returns an object only if its title is related to
\* the searched title (equal, or one contains the other, case-insensitively);
\* an object of an unrelated title is never returned, even when its artist
\* is exactly the searched artist.
C30_ReturnedTitleRelated ==
    (metPc = "done" /\ metIn.fn = "search_met_artwork" /\ metOut # << >>)
        => TitlesRelated(metOut[1].title, SearchedTitle)

====
